---- MODULE Spec2Model ----
(***************************************************************************)
(* Document-to-grade pipeline of the A-level chemistry marking system:     *)
(* one submission, its asynchronous pipeline run (processSubmissionAsync), *)
(* the manual POST /submissions/:id/mark requests (MarkingEngine) and the  *)
(* rows of the MarkingResult table that both write.                        *)
(*                                                                         *)
(* Text is modelled as a sequence of one-character strings; an error       *)
(* message as a sequence of words, so that String.includes is a search for *)
(* a contiguous run of words.                                              *)
(***************************************************************************)
EXTENDS Bags, FiniteSets, Integers, Sequences, TLC

\* ------------------------------------------------------------------------
\* Bounds of the model
\* ------------------------------------------------------------------------

\* number of manual mark requests that may be issued for the submission
NumRequests == 1

\* ------------------------------------------------------------------------
\* Program constants
\* ------------------------------------------------------------------------

\* const maxAttempts = 30 in OCRService.processPDF
maxAttempts == 30

\* ------------------------------------------------------------------------
\* Generic helpers
\* ------------------------------------------------------------------------

\* String.prototype.includes on sequences: sub occurs as a contiguous run
includes(s, sub) ==
    \E i \in 0..(Len(s) - Len(sub)) :
        \A j \in 1..Len(sub) : s[i + j] = sub[j]

Min(a, b) == IF a < b THEN a ELSE b

\* a nullable column or local variable
NullVal == [isNull |-> TRUE, v |-> <<>>]
Some(x) == [isNull |-> FALSE, v |-> x]
NullNum == [isNull |-> TRUE, v |-> 0]

\* a thrown value: an Error carrying a message, or something that is not an Error
Err(msg) == [isError |-> TRUE, message |-> msg]
NonError == [isError |-> FALSE, message |-> <<>>]
NoErr == [isError |-> FALSE, message |-> <<"none">>]

\* values a failing Prisma call or fs.readFileSync may throw
ThrownValues ==
    { Err(<<>>),
      Err(<<"Record", "to", "update", "not", "found">>),
      NonError }

\* the one message OCRService.processPDF rethrows for every failure
OcrFailedMessage == <<"Failed", "to", "process", "PDF", "with", "OCR">>

\* the two messages OpenAIMarkingService.markSubmission throws
OpenAIKeyMessage == <<"OpenAI", "API", "key", "is", "not", "configured.">>
OpenAIFailedMessage == <<"Failed", "to", "mark", "submission", "using", "OpenAI">>

\* the catch block of processSubmissionAsync: message stored with FAILED
errorMessageOf(error) ==
    IF error.isError THEN error.message ELSE <<"Unknown", "error">>

detailedErrorMessage(error) ==
    LET msg == errorMessageOf(error) IN
    IF includes(msg, <<"OpenAI", "API", "key">>)
    THEN <<"OpenAI", "API", "configuration", "error.">>
    ELSE IF includes(msg, <<"OpenAI">>)
    THEN <<"OpenAI", "marking", "failed:">> \o msg
    ELSE IF includes(msg, <<"OCR">>)
    THEN <<"OCR", "processing", "failed:">> \o msg
    ELSE msg

\* ------------------------------------------------------------------------
\* Text helpers (a string is a sequence of one-character strings)
\* ------------------------------------------------------------------------

UpperChars == <<"A","B","C","D","E","F","G","H","I","J","K","L","M",
                "N","O","P","Q","R","S","T","U","V","W","X","Y","Z">>
LowerChars == <<"a","b","c","d","e","f","g","h","i","j","k","l","m",
                "n","o","p","q","r","s","t","u","v","w","x","y","z">>
DigitChars == <<"0","1","2","3","4","5","6","7","8","9">>

Range(f) == { f[i] : i \in DOMAIN f }

isUpper(c) == c \in Range(UpperChars)
isLower(c) == c \in Range(LowerChars)
isDigit(c) == c \in Range(DigitChars)
\* \s of the regular expressions
isSpace(c) == c \in {" ", "\t", "\n"}
\* \w of the regular expressions
isWordChar(c) == isUpper(c) \/ isLower(c) \/ isDigit(c) \/ c = "_"

digitValue(c) == (CHOOSE i \in 1..10 : DigitChars[i] = c) - 1

toLowerChar(c) ==
    IF isUpper(c) THEN LowerChars[CHOOSE i \in 1..26 : UpperChars[i] = c] ELSE c
toUpperChar(c) ==
    IF isLower(c) THEN UpperChars[CHOOSE i \in 1..26 : LowerChars[i] = c] ELSE c

toLowerCase(s) == [i \in 1..Len(s) |-> toLowerChar(s[i])]
toUpperCase(s) == [i \in 1..Len(s) |-> toUpperChar(s[i])]

RECURSIVE trimStart(_)
trimStart(s) ==
    IF s # <<>> /\ isSpace(Head(s)) THEN trimStart(Tail(s)) ELSE s

RECURSIVE trimEnd(_)
trimEnd(s) ==
    IF s # <<>> /\ isSpace(s[Len(s)]) THEN trimEnd(SubSeq(s, 1, Len(s) - 1)) ELSE s

\* String.prototype.trim
trim(s) == trimEnd(trimStart(s))

\* replace(/\s+/g, ' '): every run of whitespace becomes one space
RECURSIVE collapseSpaces(_)
collapseSpaces(s) ==
    IF s = <<>> THEN <<>>
    ELSE IF isSpace(Head(s))
         THEN <<" ">> \o collapseSpaces(trimStart(s))
         ELSE <<Head(s)>> \o collapseSpaces(Tail(s))

\* replace(/\s+/g, '')
removeSpaces(s) == SelectSeq(s, LAMBDA c : ~isSpace(c))

\* String.prototype.split on a set of one-character separators
RECURSIVE split(_, _)
split(s, seps) ==
    IF \A i \in 1..Len(s) : s[i] \notin seps THEN <<s>>
    ELSE LET i == CHOOSE k \in 1..Len(s) :
                      s[k] \in seps /\ \A j \in 1..(k - 1) : s[j] \notin seps
         IN  <<SubSeq(s, 1, i - 1)>> \o split(SubSeq(s, i + 1, Len(s)), seps)

\* the leading run of digits of s (the match of /^\d+/)
RECURSIVE leadingDigits(_)
leadingDigits(s) ==
    IF s # <<>> /\ isDigit(Head(s)) THEN <<Head(s)>> \o leadingDigits(Tail(s)) ELSE <<>>

\* parseInt(digits, 10) of a non-empty run of digits
RECURSIVE parseInt(_)
parseInt(ds) ==
    IF ds = <<>> THEN 0
    ELSE parseInt(SubSeq(ds, 1, Len(ds) - 1)) * 10 + digitValue(ds[Len(ds)])

\* replace(/^\d+\s*/, '')
stripCoefficient(s) ==
    LET ds == leadingDigits(s) IN
    IF ds = <<>> THEN s ELSE trimStart(SubSeq(s, Len(ds) + 1, Len(s)))

\* parts.map(part => part.trim())
trimAll(parts) == [i \in 1..Len(parts) |-> trim(parts[i])]

\* compounds.filter(compound => compound.length > 0)
nonEmptyOnly(parts) == SelectSeq(parts, LAMBDA c : Len(c) > 0)

\* compounds.map(compound => compound.replace(/^\d+\s*/, ''))
stripCoefficients(parts) == [i \in 1..Len(parts) |-> stripCoefficient(parts[i])]

\* the elements of a sequence as a bag (sorted arrays compare equal exactly
\* when they hold the same elements the same number of times)
SeqToBag(s) == [x \in Range(s) |-> Cardinality({ i \in 1..Len(s) : s[i] = x })]

\* ------------------------------------------------------------------------
\* ChemistryUtils (chemistry-utils.ts)
\* ------------------------------------------------------------------------

\* COMMON_ELEMENTS, restricted to the symbols the modelled texts can spell
COMMON_ELEMENTS ==
    { <<"H">>, <<"O">>, <<"C">>, <<"N">>, <<"S">>, <<"K">>,
      <<"C", "l">>, <<"C", "a">>, <<"N", "a">>, <<"M", "g">> }

\* the subscript digits standardizeFormula maps to ASCII digits
SubscriptChars == <<"₀","₁","₂","₃","₄","₅","₆","₇","₈","₉">>

\* [...s.matchAll(/([A-Z][a-z]?)(\d*)/g)] as a sequence of
\* [element, countStr] records, scanning left to right
RECURSIVE matchElements(_)
matchElements(s) ==
    IF s = <<>> THEN <<>>
    ELSE IF ~isUpper(Head(s)) THEN matchElements(Tail(s))
    ELSE LET symLen  == IF Len(s) >= 2 /\ isLower(s[2]) THEN 2 ELSE 1
             rest    == SubSeq(s, symLen + 1, Len(s))
             digits  == leadingDigits(rest)
         IN  <<[element |-> SubSeq(s, 1, symLen), countStr |-> digits]>>
             \o matchElements(SubSeq(rest, Len(digits) + 1, Len(rest)))

\* s.replace(ELEMENT_REGEX, ''): what is left once every match is removed
RECURSIVE removeElements(_)
removeElements(s) ==
    IF s = <<>> THEN <<>>
    ELSE IF ~isUpper(Head(s)) THEN <<Head(s)>> \o removeElements(Tail(s))
    ELSE LET symLen  == IF Len(s) >= 2 /\ isLower(s[2]) THEN 2 ELSE 1
             rest    == SubSeq(s, symLen + 1, Len(s))
             digits  == leadingDigits(rest)
         IN  removeElements(SubSeq(rest, Len(digits) + 1, Len(rest)))

\* the first whitespace run removed only (a replace without the g flag)
removeFirstSpaces(s) ==
    IF \A i \in 1..Len(s) : ~isSpace(s[i]) THEN s
    ELSE LET p == CHOOSE i \in 1..Len(s) :
                      isSpace(s[i]) /\ \A j \in 1..(i - 1) : ~isSpace(s[j])
         IN  SubSeq(s, 1, p - 1) \o trimStart(SubSeq(s, p, Len(s)))

standardizeFirstRun(formula) ==
    LET noSpace == removeFirstSpaces(formula) IN
    [i \in 1..Len(noSpace) |->
        IF noSpace[i] \in Range(SubscriptChars)
        THEN DigitChars[CHOOSE k \in 1..10 : SubscriptChars[k] = noSpace[i]]
        ELSE noSpace[i]]

standardizeFormula(formula) ==
    LET noSpace == removeSpaces(formula) IN
    [i \in 1..Len(noSpace) |->
        IF noSpace[i] \in Range(SubscriptChars)
        THEN DigitChars[CHOOSE k \in 1..10 : SubscriptChars[k] = noSpace[i]]
        ELSE noSpace[i]]

validateFormula(formula) ==
    LET cleanFormula == SelectSeq(removeSpaces(formula),
                                  LAMBDA c : c \notin {"(", ")", "[", "]"})
        elements == matchElements(cleanFormula)
    IN  IF cleanFormula = <<>> \/ elements = <<>>
        THEN [isValid |-> FALSE, standardForm |-> <<>>]
        ELSE [isValid |-> (\A i \in 1..Len(elements) :
                               elements[i].element \in COMMON_ELEMENTS)
                          /\ removeElements(cleanFormula) = <<>>,
              standardForm |-> standardizeFormula(cleanFormula)]

parseCompounds(compoundsStr) ==
    nonEmptyOnly(stripCoefficients(nonEmptyOnly(trimAll(split(compoundsStr, {"+"})))))

\* match ? parseInt(match[1], 10) : 1, from the digits a compound starts with
coefficientFrom(ds) == IF ds = <<>> THEN 1 ELSE parseInt(ds)

coefficientsOf(compounds) ==
    [i \in 1..Len(compounds) |-> coefficientFrom(leadingDigits(compounds[i]))]

extractCoefficients(equation) ==
    coefficientsOf(trimAll(split(equation, {"+", "=", "→", "⟶"})))

\* elementCounts[element] of getElementCounts, 0 when the element is absent
RECURSIVE getElementCount(_, _, _, _)
getElementCount(compounds, coefficients, element, index) ==
    IF index > Len(compounds) THEN 0
    ELSE LET coefficient ==
                 IF index <= Len(coefficients) /\ coefficients[index] # 0
                 THEN coefficients[index] ELSE 1
             elements == matchElements(compounds[index])
             counts == [k \in 1..Len(elements) |->
                 IF elements[k].element # element THEN 0
                 ELSE (IF elements[k].countStr = <<>> THEN 1
                       ELSE parseInt(elements[k].countStr)) * coefficient]
             SumTo[k \in 0..Len(counts)] ==
                 IF k = 0 THEN 0 ELSE SumTo[k - 1] + counts[k]
         IN  SumTo[Len(counts)]
             + getElementCount(compounds, coefficients, element, index + 1)

elementsOf(compounds) ==
    UNION { { e.element : e \in Range(matchElements(compounds[i])) } :
            i \in 1..Len(compounds) }

checkBalance(reactants, products, coefficients) ==
    LET reactantCoefficients ==
            SubSeq(coefficients, 1, Min(Len(reactants), Len(coefficients)))
        productCoefficients ==
            SubSeq(coefficients, Len(reactants) + 1, Len(coefficients))
    IN  \A element \in elementsOf(reactants) \cup elementsOf(products) :
            getElementCount(reactants, reactantCoefficients, element, 1)
            = getElementCount(products, productCoefficients, element, 1)

\* the compounds of both sides and the balance, once the equation is split
parseSides(normalized, reactants, products) ==
    IF reactants = <<>> \/ products = <<>>
    THEN [parsed |-> FALSE, reactants |-> <<>>, products |-> <<>>,
          isBalanced |-> FALSE]
    ELSE [parsed |-> TRUE, reactants |-> reactants, products |-> products,
          isBalanced |-> checkBalance(reactants, products,
                                      extractCoefficients(normalized))]

\* group 2 of EQUATION_REGEX: \s* takes the space that follows the separator
productsPart(afterSep) ==
    IF Len(afterSep) >= 2 /\ isSpace(Head(afterSep)) THEN Tail(afterSep) ELSE afterSep

\* the match of EQUATION_REGEX /^(.+?)\s*[→=]\s*(.+)$/ on the normalized
\* text: it splits at the first "=" with a character on each side
parseNormalized(normalized, splits) ==
    IF splits = {}
    THEN [parsed |-> FALSE, reactants |-> <<>>, products |-> <<>>,
          isBalanced |-> FALSE]
    ELSE LET p == CHOOSE q \in splits : \A r \in splits : q <= r
         IN  parseSides(normalized,
                 parseCompounds(trimEnd(SubSeq(normalized, 1, p - 1))),
                 parseCompounds(productsPart(SubSeq(normalized, p + 1, Len(normalized)))))

splitPoints(normalized) ==
    { p \in 2..(Len(normalized) - 1) : normalized[p] = "=" }

\* equation.replace(/\s+/g, ' ').replace(/[→⟶]/g, '=').trim()
normalizeEquation(equation) ==
    trim(collapseSpaces([i \in 1..Len(equation) |->
            IF equation[i] \in {"→", "⟶"} THEN "=" ELSE equation[i]]))

parseWith(normalized) == parseNormalized(normalized, splitPoints(normalized))

parseEquation(equation) == parseWith(normalizeEquation(equation))

compareFormulas(formula1, formula2) ==
    toLowerCase(standardizeFormula(formula1))
    = toLowerCase(standardizeFormula(formula2))

sameCompounds(parsed1, parsed2) ==
    /\ parsed1.parsed
    /\ parsed2.parsed
    /\ SeqToBag(parsed1.reactants) = SeqToBag(parsed2.reactants)
    /\ SeqToBag(parsed1.products) = SeqToBag(parsed2.products)

compareEquations(eq1, eq2) == sameCompounds(parseEquation(eq1), parseEquation(eq2))

\* matrix[str2.length][str1.length] of levenshteinDistance, row by row
levenshteinDistance(str1, str2) ==
    LET n == Len(str1)
        Row[j \in 0..Len(str2)] ==
            IF j = 0 THEN [i \in 0..n |-> i]
            ELSE LET prev == Row[j - 1]
                     Cur[i \in 0..n] ==
                         IF i = 0 THEN j
                         ELSE LET indicator == IF str1[i] = str2[j] THEN 0 ELSE 1
                              IN  Min(Min(Cur[i - 1] + 1, prev[i] + 1),
                                      prev[i - 1] + indicator)
                 IN  Cur
    IN  Row[Len(str2)][n]

\* calculateSimilarity(str1, str2) >= tolerance, with the tolerance given in
\* hundredths: (longer.length - distance) / longer.length >= tolerance / 100
similarityAtLeast(str1, str2, tolerancePct) ==
    LET longer  == IF Len(str1) > Len(str2) THEN str1 ELSE str2
        shorter == IF Len(str1) > Len(str2) THEN str2 ELSE str1
    IN  IF Len(longer) = 0 THEN 100 >= tolerancePct
        ELSE (Len(longer) - levenshteinDistance(longer, shorter)) * 100
             >= tolerancePct * Len(longer)

fuzzyCompareText(text1, text2, tolerancePct) ==
    LET clean1 == SelectSeq(toLowerCase(text1), isWordChar)
        clean2 == SelectSeq(toLowerCase(text2), isWordChar)
    IN  clean1 = clean2 \/ similarityAtLeast(clean1, clean2, tolerancePct)

\* 10^k
RECURSIVE pow10(_)
pow10(k) == IF k = 0 THEN 1 ELSE 10 * pow10(k - 1)

\* parseFloat of a run of digits and dots: its integer and fraction digits
parseFloatParts(intPart, fracPart) ==
    IF intPart = <<>> /\ fracPart = <<>>
    THEN [isNull |-> FALSE, nan |-> TRUE, num |-> 0, den |-> 1]
    ELSE [isNull |-> FALSE, nan |-> FALSE,
          num |-> parseInt(intPart \o fracPart), den |-> pow10(Len(fracPart))]

fractionDigits(afterInt) ==
    IF afterInt # <<>> /\ Head(afterInt) = "."
    THEN leadingDigits(Tail(afterInt)) ELSE <<>>

parseFloatRun(run, intPart) ==
    parseFloatParts(intPart, fractionDigits(SubSeq(run, Len(intPart) + 1, Len(run))))

parseFloat(run) == parseFloatRun(run, leadingDigits(run))

\* the positions of text that /[\d.]/ matches
numericPositions(text) ==
    { i \in 1..Len(text) : isDigit(text[i]) \/ text[i] = "." }

firstNumeric(text, starts) ==
    IF starts = {} THEN [isNull |-> TRUE, nan |-> FALSE, num |-> 0, den |-> 1]
    ELSE parseFloat(SubSeq(text, CHOOSE i \in starts : \A k \in starts : i <= k,
                           Len(text)))

\* text.match(/[\d.]+/) then parseFloat: the value num/den of the first run
\* of digits and dots, NaN when the run starts with no digit at all
extractNumericValue(text) == firstNumeric(text, numericPositions(text))

\* Math.abs(a - b) < 0.01 on the values of extractNumericValue
withinTolerance(a, b) ==
    LET diff == a.num * b.den - b.num * a.den
        absDiff == IF diff < 0 THEN -diff ELSE diff
    IN  ~a.nan /\ ~b.nan /\ absDiff * 100 < a.den * b.den

\* ------------------------------------------------------------------------
\* MarkingEngine: per-question policies (marking-engine.ts)
\* Confidence is in hundredths; a question's optional fields are nullable.
\* ------------------------------------------------------------------------

\* sum of f[1..Len(f)]
SumSeq(f) ==
    LET SumTo[k \in 0..Len(f)] == IF k = 0 THEN 0 ELSE SumTo[k - 1] + f[k]
    IN  SumTo[Len(f)]

\* markingPoints.findIndex(p => p.id === id), 1-based; 0 when absent
findIndex(markingPoints, id) ==
    LET hits == { i \in 1..Len(markingPoints) : markingPoints[i].id = id }
    IN  IF hits = {} THEN 0 ELSE CHOOSE i \in hits : \A k \in hits : i <= k

\* question.markingPoints.map(mp => ({id: mp.id, awarded: flag, ...}))
allPoints(question, flag) ==
    [i \in 1..Len(question.markingPoints) |->
        [id |-> question.markingPoints[i].id, awarded |-> flag]]

hasWorkingShown(answer) ==
    \E i \in 1..Len(answer) : answer[i] \in {"=", "×", "÷", "+", "-", "x", "/", "*"}

\* /\([gas|liquid|solid|aqueous|g|l|s|aq]\)/i: one character of the class
\* between parentheses
hasStateSymbols(equation) ==
    \E i \in 1..(Len(equation) - 2) :
        /\ equation[i] = "("
        /\ toLowerChar(equation[i + 1])
              \in {"g", "a", "s", "|", "l", "i", "q", "u", "d", "o", "e"}
        /\ equation[i + 2] = ")"

\* part.replace(/\([^)]*\)$/, ''): drop a closing parenthesised group
stripTrailingGroup(s) ==
    LET opens == { i \in 1..(Len(s) - 1) :
                     /\ s[i] = "("
                     /\ \A k \in (i + 1)..(Len(s) - 1) : s[k] # ")" }
    IN  IF s = <<>> \/ s[Len(s)] # ")" \/ opens = {} THEN s
        ELSE SubSeq(s, 1, (CHOOSE i \in opens : \A k \in opens : i <= k) - 1)

\* part.replace(/^\d+\s*/, '').replace(/\([^)]*\)$/, '').trim()
formulaOf(part) == trim(stripTrailingGroup(stripCoefficient(part)))

formulasOf(parts) == [i \in 1..Len(parts) |-> formulaOf(parts[i])]

extractFormulas(equation) ==
    nonEmptyOnly(formulasOf(split(equation, {"→", "=", "+"})))

hasCorrectFormulas(studentEquation, correctEquation) ==
    LET studentFormulas == extractFormulas(studentEquation)
        correctFormulas == extractFormulas(correctEquation)
    IN  /\ Len(studentFormulas) = Len(correctFormulas)
        /\ \A i \in 1..Len(studentFormulas) :
              \E k \in 1..Len(correctFormulas) :
                  compareFormulas(studentFormulas[i], correctFormulas[k])

noAnswerResult(question) ==
    [questionId |-> question.id, marksAwarded |-> 0, maxMarks |-> question.maxMarks,
     feedback |-> "No answer provided", markingPoints |-> allPoints(question, FALSE),
     isCorrect |-> FALSE, confidence |-> 100]

markMultipleChoice(question, studentAnswer) ==
    LET cleanStudentAnswer == trim(toUpperCase(studentAnswer))
        isCorrect == /\ ~question.correctAnswer.isNull
                     /\ toUpperCase(question.correctAnswer.v) = cleanStudentAnswer
    IN  [questionId |-> question.id,
         marksAwarded |-> IF isCorrect THEN question.maxMarks ELSE 0,
         maxMarks |-> question.maxMarks,
         feedback |-> IF isCorrect THEN "Correct answer" ELSE "Incorrect",
         markingPoints |-> <<[id |-> "MC1", awarded |-> isCorrect]>>,
         isCorrect |-> isCorrect, confidence |-> 100]

\* the loop of markCalculation over question.acceptedAnswers
calculationMatched(question, numericValue) ==
    /\ ~question.acceptedAnswers.isNull
    /\ ~numericValue.isNull
    /\ \E i \in 1..Len(question.acceptedAnswers.v) :
          withinTolerance(numericValue,
                          extractNumericValue(question.acceptedAnswers.v[i]))

\* a match that awards maxMarks = 0 leaves marksAwarded === 0, so the
\* working-shown branch still runs
calculationResult(question, matched, partial, marksAwarded) ==
    [questionId |-> question.id, marksAwarded |-> marksAwarded,
     maxMarks |-> question.maxMarks,
     feedback |-> IF marksAwarded = question.maxMarks
                  THEN "Correct calculation and final answer"
                  ELSE IF marksAwarded > 0
                  THEN "Partial credit for correct method, but check your final answer"
                  ELSE "Incorrect answer. Check your calculation method and units",
     markingPoints |->
         [i \in 1..Len(question.markingPoints) |->
             [id |-> question.markingPoints[i].id,
              awarded |-> matched \/ (partial /\ i = 1)]],
     isCorrect |-> marksAwarded = question.maxMarks, confidence |-> 80]

calculationMarks(question, matched, partial) ==
    calculationResult(question, matched, partial,
        IF partial THEN question.maxMarks \div 2
        ELSE IF matched THEN question.maxMarks ELSE 0)

calculationPartial(question, matched, working) ==
    calculationMarks(question, matched,
        (IF matched THEN question.maxMarks ELSE 0) = 0 /\ working)

markCalculation(question, studentAnswer) ==
    calculationPartial(question,
        calculationMatched(question, extractNumericValue(studentAnswer)),
        hasWorkingShown(studentAnswer))

\* the result of markChemicalEquation from its four tests: the equation
\* parses, it equals the correct one, and points 1 to 3
equationResult(question, parsed, full, p1, p2, p3, marksAwarded) ==
    [questionId |-> question.id, marksAwarded |-> marksAwarded,
     maxMarks |-> question.maxMarks,
     feedback |-> IF marksAwarded = question.maxMarks THEN "Correct chemical equation"
                  ELSE IF parsed THEN "Partially correct"
                  ELSE "Invalid chemical equation format",
     markingPoints |->
         [i \in 1..Len(question.markingPoints) |->
             [id |-> question.markingPoints[i].id,
              awarded |-> full \/ (i = 1 /\ p1) \/ (i = 2 /\ p2) \/ (i = 3 /\ p3)]],
     isCorrect |-> marksAwarded = question.maxMarks, confidence |-> 85]

equationMarks(question, parsed, full, p1, p2, p3) ==
    equationResult(question, parsed, full, p1, p2, p3,
        IF full THEN question.maxMarks
        ELSE (IF p1 THEN 1 ELSE 0) + (IF p2 THEN 1 ELSE 0) + (IF p3 THEN 1 ELSE 0))

equationPoints(question, parsedEquation, full, formulasOk, stateSymbols) ==
    equationMarks(question, parsedEquation.parsed, full,
        ~full /\ parsedEquation.parsed /\ Len(question.markingPoints) >= 1
            /\ formulasOk,
        ~full /\ parsedEquation.parsed /\ Len(question.markingPoints) >= 2
            /\ question.balanceRequired /\ parsedEquation.isBalanced,
        ~full /\ parsedEquation.parsed /\ Len(question.markingPoints) >= 3
            /\ question.stateSymbolsRequired /\ stateSymbols)

\* question.correctEquation || ''
correctEquationOf(question) ==
    IF question.correctEquation.isNull THEN <<>> ELSE question.correctEquation.v

equationAgainst(question, studentAnswer, correctEquation) ==
    equationPoints(question, parseEquation(studentAnswer),
        correctEquation # <<>> /\ compareEquations(studentAnswer, correctEquation),
        hasCorrectFormulas(studentAnswer, correctEquation),
        hasStateSymbols(studentAnswer))

markChemicalEquation(question, studentAnswer) ==
    equationAgainst(question, studentAnswer, correctEquationOf(question))

\* keyword found in the answer: answer.toLowerCase().includes(keyword.toLowerCase())
keywordFound(studentAnswer, keyword) ==
    includes(toLowerCase(studentAnswer), toLowerCase(keyword))

\* the loop over question.markingPoints shared by markShortAnswer and
\* markExtendedResponse: hits[i] says whether the keyword test of point i
\* passed; its marks are then added, and the flag is set on the first point
\* that carries its id
keywordLoop(question, hits) ==
    LET mps == question.markingPoints
        hit(i) == ~mps[i].keywords.isNull /\ hits[i]
                  /\ findIndex(mps, mps[i].id) > 0
    IN  [marks |-> SumSeq([i \in 1..Len(mps) |-> IF hit(i) THEN mps[i].marks ELSE 0]),
         awarded |-> [i \in 1..Len(mps) |->
                        \E k \in 1..Len(mps) : hit(k) /\ findIndex(mps, mps[k].id) = i]]

shortAnswerResult(question, matched, useLoop, loop, marksAwarded) ==
    [questionId |-> question.id, marksAwarded |-> marksAwarded,
     maxMarks |-> question.maxMarks,
     feedback |-> IF marksAwarded = question.maxMarks THEN "Correct answer"
                  ELSE "Incorrect or incomplete answer",
     markingPoints |->
         [i \in 1..Len(question.markingPoints) |->
             [id |-> question.markingPoints[i].id,
              awarded |-> matched \/ (useLoop /\ loop.awarded[i])]],
     isCorrect |-> marksAwarded = question.maxMarks, confidence |-> 75]

\* the keyword loop runs when marksAwarded === 0 after the accepted answers
\* and the question has marking points
shortAnswerMarks(question, matched, useLoop, loop) ==
    shortAnswerResult(question, matched, useLoop, loop,
        IF useLoop THEN loop.marks
        ELSE IF matched THEN question.maxMarks ELSE 0)

shortAnswerLoop(question, matched, loop) ==
    shortAnswerMarks(question, matched,
        (IF matched THEN question.maxMarks ELSE 0) = 0
            /\ Len(question.markingPoints) > 0,
        loop)

\* mp.keywords.some(keyword => the answer includes it)
someKeyword(studentAnswer, mp) ==
    \E k \in 1..Len(mp.keywords.v) : keywordFound(studentAnswer, mp.keywords.v[k])

\* spellingTolerance === 'strict' ? 0.95 : 0.8, in hundredths
toleranceOf(markscheme) ==
    IF markscheme.markingRules.spellingTolerance = "strict" THEN 95 ELSE 80

shortAnswerMatched(question, studentAnswer, tolerance) ==
    /\ ~question.acceptedAnswers.isNull
    /\ \E i \in 1..Len(question.acceptedAnswers.v) :
          fuzzyCompareText(studentAnswer, question.acceptedAnswers.v[i], tolerance)

markShortAnswer(question, studentAnswer, markscheme) ==
    shortAnswerLoop(question,
        shortAnswerMatched(question, studentAnswer, toleranceOf(markscheme)),
        keywordLoop(question,
            [i \in 1..Len(question.markingPoints) |->
                someKeyword(studentAnswer, question.markingPoints[i])]))

\* Math.floor(n * 0.6): the threshold rounded down
keywordThresholdFloor(n) == (6 * n) \div 10

\* Math.ceil(n * 0.6)
keywordThreshold(n) == (6 * n + 9) \div 10

\* keywordCount >= threshold
enoughKeywords(studentAnswer, mp) ==
    Cardinality({ k \in 1..Len(mp.keywords.v) :
                    keywordFound(studentAnswer, mp.keywords.v[k]) })
    >= keywordThreshold(Len(mp.keywords.v))

extendedResult(question, loop) ==
    [questionId |-> question.id, marksAwarded |-> loop.marks,
     maxMarks |-> question.maxMarks,
     feedback |-> IF loop.marks * 10 >= question.maxMarks * 8
                  THEN "Good response covering most key points"
                  ELSE "Response is missing key points",
     markingPoints |->
         [i \in 1..Len(question.markingPoints) |->
             [id |-> question.markingPoints[i].id, awarded |-> loop.awarded[i]]],
     \* marksAwarded >= question.maxMarks * 0.8
     isCorrect |-> loop.marks * 10 >= question.maxMarks * 8,
     confidence |-> 65]

markExtendedResponse(question, studentAnswer) ==
    extendedResult(question,
        keywordLoop(question,
            [i \in 1..Len(question.markingPoints) |->
                enoughKeywords(studentAnswer, question.markingPoints[i])]))

markGeneric(question) ==
    [questionId |-> question.id, marksAwarded |-> 0, maxMarks |-> question.maxMarks,
     feedback |-> "Unable to automatically mark this question type",
     markingPoints |-> allPoints(question, FALSE),
     isCorrect |-> FALSE, confidence |-> 0]

\* the ids `AI_${index + 1}` given to the points of a language-model breakdown
AiPointIds == <<"AI_1", "AI_2", "AI_3">>

\* markWithOpenAI: response is what openaiService.markAnswer produced,
\* [ok |-> FALSE] when it threw; a response without a breakdown array makes
\* result.breakdown.map throw inside the try block
markWithOpenAI(question, response) ==
    IF response.ok /\ ~response.breakdown.isNull
    THEN [questionId |-> question.id, marksAwarded |-> response.score,
          maxMarks |-> response.maxScore, feedback |-> "AI feedback",
          markingPoints |->
              [i \in 1..Len(response.breakdown.v) |->
                  [id |-> AiPointIds[i], awarded |-> response.breakdown.v[i]]],
          isCorrect |-> response.score = response.maxScore, confidence |-> 90]
    ELSE [questionId |-> question.id, marksAwarded |-> 0,
          maxMarks |-> question.maxMarks,
          feedback |-> "Unable to mark using AI - please review manually",
          markingPoints |-> allPoints(question, FALSE),
          isCorrect |-> FALSE, confidence |-> 0]

\* the dispatch of markQuestion on a trimmed, non-empty answer
markByType(question, cleanAnswer, markscheme) ==
    IF question.type = "multiple_choice"
    THEN markMultipleChoice(question, cleanAnswer)
    ELSE IF question.type = "calculation"
    THEN markCalculation(question, cleanAnswer)
    ELSE IF question.type = "chemical_equation"
    THEN markChemicalEquation(question, cleanAnswer)
    ELSE IF question.type = "short_answer"
    THEN markShortAnswer(question, cleanAnswer, markscheme)
    ELSE IF question.type = "extended_response"
    THEN markExtendedResponse(question, cleanAnswer)
    ELSE markGeneric(question)

\* markQuestion with the language-model branch tested before the empty
\* answer
markCleanFallbackFirst(question, cleanAnswer, markscheme, useOpenAI, response) ==
    IF useOpenAI THEN markWithOpenAI(question, response)
    ELSE IF cleanAnswer = <<>> THEN noAnswerResult(question)
    ELSE markByType(question, cleanAnswer, markscheme)

markClean(question, cleanAnswer, markscheme, useOpenAI, response) ==
    IF cleanAnswer = <<>> THEN noAnswerResult(question)
    ELSE IF useOpenAI THEN markWithOpenAI(question, response)
    ELSE markByType(question, cleanAnswer, markscheme)

\* the branch markQuestion takes: the early return on an empty answer, the
\* language-model call, or the policy of the question's type
policyOf(question, cleanAnswer, useOpenAI) ==
    IF cleanAnswer = <<>> THEN "none"
    ELSE IF useOpenAI THEN "markWithOpenAI"
    ELSE IF question.type \in {"multiple_choice", "calculation", "chemical_equation",
                               "short_answer", "extended_response"}
    THEN question.type
    ELSE "markGeneric"

\* markQuestion; useOpenAI is process.env.USE_OPENAI_MARKING === 'true'
markQuestion(question, studentAnswer, markscheme, useOpenAI, response) ==
    markClean(question, trim(studentAnswer), markscheme, useOpenAI, response)

\* extractAnswersFromOCR.  A line of the OCR text is [qid, text]: qid is the
\* match of /(\d{2}\.\d+)/ in the line ("" when the line has none), text the
\* trimmed line.  Returns the sequence of [questionId, answer].
RECURSIVE extractLoop(_, _, _, _)
extractLoop(lines, i, currentQuestionId, answerLines) ==
    LET joined == trim(answerLines)
        flush == IF currentQuestionId # "" /\ answerLines # <<>>
                 THEN <<[questionId |-> currentQuestionId, answer |-> joined]>>
                 ELSE <<>>
    IN  IF i > Len(lines) THEN flush
        ELSE IF lines[i].qid # ""
             THEN flush \o extractLoop(lines, i + 1, lines[i].qid, <<>>)
        ELSE IF currentQuestionId # "" /\ Len(lines[i].text) > 0
             \* answerLines.join(' '): the lines so far, separated by a space
             THEN extractLoop(lines, i + 1, currentQuestionId,
                      IF answerLines = <<>> THEN lines[i].text
                      ELSE answerLines \o <<" ">> \o lines[i].text)
        ELSE extractLoop(lines, i + 1, currentQuestionId, answerLines)

extractAnswersFromOCR(ocrLines) == extractLoop(ocrLines, 1, "", <<>>)

\* extractedAnswers.find(a => a.questionId === question.id)?.answer || ''
answerFor(extractedAnswers, questionId) ==
    LET hits == { i \in 1..Len(extractedAnswers) :
                    extractedAnswers[i].questionId = questionId }
    IN  IF hits = {} THEN <<>>
        ELSE extractedAnswers[CHOOSE i \in hits : \A k \in hits : i <= k].answer

\* ------------------------------------------------------------------------
\* The paper's mark scheme and the inputs of one submission
\* ------------------------------------------------------------------------

Q1 == [id |-> "01.1", type |-> "multiple_choice", maxMarks |-> 1,
       correctAnswer |-> Some(<<"C">>), acceptedAnswers |-> NullVal,
       correctEquation |-> NullVal, markingPoints |-> <<>>,
       balanceRequired |-> FALSE, stateSymbolsRequired |-> FALSE]

\* maxMarks and marks as validateAndCleanParsedContent defaults them (1 each)
Q2 == [id |-> "01.2", type |-> "short_answer", maxMarks |-> 1,
       correctAnswer |-> NullVal, acceptedAnswers |-> Some(<<>>),
       correctEquation |-> NullVal,
       markingPoints |->
           <<[id |-> "M1", marks |-> 1, keywords |-> Some(<< <<"i","o","n">> >>)],
             [id |-> "M2", marks |-> 1, keywords |-> Some(<< <<"b","o","n","d">> >>)]>>,
       balanceRequired |-> FALSE, stateSymbolsRequired |-> FALSE]

Markscheme ==
    [questions |-> <<Q1, Q2>>,
     markingRules |-> [spellingTolerance |-> "moderate"]]

QuestionIds == { Markscheme.questions[i].id : i \in 1..Len(Markscheme.questions) }

\* texts the OCR provider may deliver for the uploaded answer sheet
OcrTexts ==
    { <<[qid |-> "", text |-> <<>>]>>,
      <<[qid |-> "01.1", text |-> <<"0","1",".","1">>],
        [qid |-> "", text |-> <<"C">>],
        [qid |-> "01.2", text |-> <<"0","1",".","2">>],
        [qid |-> "", text |-> <<"i","o","n","i","c">>],
        [qid |-> "", text |-> <<"b","o","n","d">>]>> }

\* what JSON.parse gives processSubmissionAsync back from the language model
\* (openaiService.markSubmission): any question list at all, or none
SubmissionResponses ==
    { [questionResults |-> Some(<<[questionId |-> "01.1", marksAwarded |-> 1, maxMarks |-> 1],
                                  [questionId |-> "01.2", marksAwarded |-> 1, maxMarks |-> 1]>>),
       totalScore |-> 2, maxScore |-> 2],
      [questionResults |-> Some(<<[questionId |-> "01.1", marksAwarded |-> 3, maxMarks |-> 1],
                                  [questionId |-> "99.9", marksAwarded |-> -1, maxMarks |-> 1]>>),
       totalScore |-> 5, maxScore |-> 2],
      [questionResults |-> NullVal, totalScore |-> 0, maxScore |-> 0] }

NoResponse == [questionResults |-> NullVal, totalScore |-> 0, maxScore |-> 0]

\* what openaiService.markAnswer gives markWithOpenAI for one question
AnswerResponses ==
    { [ok |-> FALSE, score |-> 0, maxScore |-> 0, breakdown |-> NullVal],
      [ok |-> TRUE, score |-> 5, maxScore |-> 1, breakdown |-> Some(<<TRUE, FALSE>>)] }

\* JavaScript undefined where a number is expected: the value of a field
\* the parsed JSON does not have; no score of a response equals it
Undefined == -1

\* what openaiService.markAnswer gives a call of markQuestion on its own:
\* also JSON that lacks breakdown, score, maxScore, or both scores
GradeResponses ==
    AnswerResponses \cup
    { [ok |-> TRUE, score |-> 1, maxScore |-> 1, breakdown |-> NullVal],
      [ok |-> TRUE, score |-> Undefined, maxScore |-> 1,
       breakdown |-> Some(<<TRUE>>)],
      [ok |-> TRUE, score |-> 1, maxScore |-> Undefined,
       breakdown |-> Some(<<TRUE>>)],
      [ok |-> TRUE, score |-> Undefined, maxScore |-> Undefined,
       breakdown |-> Some(<<TRUE, FALSE>>)] }

Requests == 1..NumRequests

\* questions of the other types, for calls of markQuestion on its own
QCalc == [id |-> "02.1", type |-> "calculation", maxMarks |-> 3,
          correctAnswer |-> NullVal,
          acceptedAnswers |-> Some(<< <<"1","2",".","5">> >>),
          correctEquation |-> NullVal,
          markingPoints |-> <<[id |-> "M1", marks |-> 1, keywords |-> NullVal]>>,
          balanceRequired |-> FALSE, stateSymbolsRequired |-> FALSE]

QEquation ==
    [id |-> "02.2", type |-> "chemical_equation", maxMarks |-> 2,
     correctAnswer |-> NullVal, acceptedAnswers |-> NullVal,
     correctEquation |-> Some(<<"2","H","2"," ","+"," ","O","2"," ","="," ","2","H","2","O">>),
     markingPoints |-> <<[id |-> "M1", marks |-> 1, keywords |-> NullVal],
                         [id |-> "M2", marks |-> 1, keywords |-> NullVal]>>,
     balanceRequired |-> TRUE, stateSymbolsRequired |-> FALSE]

QExtended ==
    [id |-> "03.1", type |-> "extended_response", maxMarks |-> 2,
     correctAnswer |-> NullVal, acceptedAnswers |-> NullVal,
     correctEquation |-> NullVal,
     markingPoints |->
         <<[id |-> "M1", marks |-> 1,
            keywords |-> Some(<< <<"i","o","n">>, <<"b","o","n","d">> >>)],
           [id |-> "M2", marks |-> 1, keywords |-> Some(<<>>)]>>,
     balanceRequired |-> FALSE, stateSymbolsRequired |-> FALSE]

\* a type the switch of markQuestion has no case for
QOther == [id |-> "03.2", type |-> "diagram", maxMarks |-> 1,
           correctAnswer |-> NullVal, acceptedAnswers |-> NullVal,
           correctEquation |-> NullVal,
           markingPoints |-> <<[id |-> "M1", marks |-> 1, keywords |-> NullVal]>>,
           balanceRequired |-> FALSE, stateSymbolsRequired |-> FALSE]

\* a longer answer marked point by point: keyword lists of three, five and
\* two words in mixed case, and a point that has no keyword list
QExtendedFive ==
    [id |-> "03.3", type |-> "extended_response", maxMarks |-> 5,
     correctAnswer |-> NullVal, acceptedAnswers |-> NullVal,
     correctEquation |-> NullVal,
     markingPoints |->
         <<[id |-> "M1", marks |-> 2,
            keywords |-> Some(<< <<"i","o","n">>, <<"b","o","n","d">>, <<"s","a","l","t">> >>)],
           [id |-> "M2", marks |-> 1,
            keywords |-> Some(<< <<"I","o","n">>, <<"B","o","n","d">>, <<"S","a","l","t">>,
                                 <<"M","e","t","a","l">>, <<"A","t","o","m">> >>)],
           [id |-> "M3", marks |-> 1,
            keywords |-> Some(<< <<"m","e","t","a","l">>, <<"a","t","o","m">> >>)],
           [id |-> "M4", marks |-> 1, keywords |-> NullVal]>>,
     balanceRequired |-> FALSE, stateSymbolsRequired |-> FALSE]

\* one mark, two accepted answers
QCalcOne == [id |-> "02.3", type |-> "calculation", maxMarks |-> 1,
             correctAnswer |-> NullVal,
             acceptedAnswers |-> Some(<< <<"0",".","2","5">>, <<"2","5"," ","%">> >>),
             correctEquation |-> NullVal,
             markingPoints |-> <<[id |-> "M1", marks |-> 1, keywords |-> NullVal]>>,
             balanceRequired |-> FALSE, stateSymbolsRequired |-> FALSE]

\* an accepted answer, a point with one keyword and a point whose keyword
\* list is empty (keywords: mp.keywords || [] of the structuring step)
QShort ==
    [id |-> "01.3", type |-> "short_answer", maxMarks |-> 2,
     correctAnswer |-> NullVal,
     acceptedAnswers |-> Some(<< <<"i","o","n","i","c">> >>),
     correctEquation |-> NullVal,
     markingPoints |->
         <<[id |-> "M1", marks |-> 1, keywords |-> Some(<< <<"b","o","n","d">> >>)],
           [id |-> "M2", marks |-> 1, keywords |-> Some(<<>>)]>>,
     balanceRequired |-> FALSE, stateSymbolsRequired |-> FALSE]

GradeQuestions ==
    {Q1, Q2, QCalc, QEquation, QExtended, QOther, QExtendedFive, QCalcOne, QShort}

\* written answers: keyword answers, numbers, working, equations
AnsIonBondSalt == <<"i","o","n"," ","b","o","n","d"," ","s","a","l","t">>
AnsMetalAtomIonBond == <<"M","E","T","A","L"," ","a","t","o","m"," ","I","o","n"," ","b","o","n","d">>
AnsMetal == <<"a"," ","m","e","t","a","l">>
AnsSalt == <<"s","a","l","t">>
AnsNear == <<"1","2",".","5","0","5">>
AnsFar == <<"1","2",".","6">>
AnsWorking == <<"2","*","6",".","3">>
AnsSix == <<"s","i","x">>
AnsQuarter == <<"0",".","2","5">>
AnsPercent == <<"2","5">>
AnsBalanced == <<"2","H","2"," ","+"," ","O","2"," ","="," ","2","H","2","O">>
AnsIonc == <<"i","o","n","c">>

\* student answers handed to markQuestion: none, blank, and written ones
GradeAnswers ==
    { <<>>, <<" ">>, <<" ", "\t", "\n">>,
      <<"C">>, <<" ", "c", " ">>,
      <<"i","o","n","i","c"," ","b","o","n","d">>,
      <<"x","=","1","2",".","5">>,
      <<"H","2"," ","+"," ","O","2"," ","="," ","H","2","O">>,
      AnsIonBondSalt, AnsMetalAtomIonBond, AnsMetal, AnsSalt,
      AnsNear, AnsFar, AnsWorking, AnsSix,
      AnsQuarter, AnsPercent, AnsBalanced, AnsIonc }

\* the call of markQuestion before it is made, and when none is modelled
NoResult == [questionId |-> "", marksAwarded |-> 0, maxMarks |-> 0,
             feedback |-> "", markingPoints |-> <<>>, isCorrect |-> FALSE,
             confidence |-> 0]
NoGrade == [pc |-> "off", question |-> Q1, answer |-> <<>>,
            response |-> [ok |-> FALSE, score |-> 0, maxScore |-> 0,
                          breakdown |-> NullVal],
            result |-> NoResult, policy |-> "none"]

\* null of parseEquation, and the results before a call is made
NoEquation == [parsed |-> FALSE, reactants |-> <<>>, products |-> <<>>,
               isBalanced |-> FALSE]
NoValidation == [isValid |-> FALSE, standardForm |-> <<>>]
NoChem == [pc |-> "off", op |-> "none", a |-> <<>>, b |-> <<>>,
           equation |-> NoEquation, equal |-> FALSE,
           validation |-> NoValidation, standard |-> <<>>]

\* the grading pass that wrote a row or the score fields: the pipeline run,
\* or the number of a mark request
PipelinePass == 0
NoPass == -1

\* ------------------------------------------------------------------------
\* State
\* ------------------------------------------------------------------------

VARIABLES
    status,          \* Submission.status; "NONE" until the row is created
    errorMessage,    \* Submission.errorMessage
    ocrText,         \* Submission.ocrText
    totalScore,      \* Submission.totalScore (written by the pipeline)
    score,           \* Submission.score (written by MarkingEngine)
    maxScore,        \* Submission.maxScore
    scoresPass,      \* the pass that last wrote the score fields
    results,         \* the MarkingResult rows of the submission, a bag
    useOpenAI,       \* process.env.USE_OPENAI_MARKING === 'true'
    ppc,             \* where processSubmissionAsync is
    pErr,            \* the value it caught
    attempts,        \* attempts of the polling loop of processPDF
    ocrFailure,      \* which throw inside processPDF ended the extraction
    ocrResult,       \* ocrResult.text
    markingResults,  \* what markingService.markSubmission returned
    pPending,        \* creates handed to Promise.all and not yet settled
    threw,           \* an exception was raised in the try block of the run
    llmCalled,       \* the run called markingService.markSubmission
    req,             \* the mark requests: position and locals of each
    grade,           \* one call of markQuestion: arguments, result, branch
    chem,            \* one call of a ChemistryUtils function
    paper,           \* the Paper row: exists, totalMarks, totalSubparts
    markscheme,      \* the Markscheme row of the paper
    upload,          \* the run of processMarkschemeAsync: position and locals
    reply            \* the last response of a mark-scheme or submit handler

vars == <<status, errorMessage, ocrText, totalScore, score, maxScore, scoresPass,
          results, useOpenAI, ppc, pErr, attempts, ocrFailure, ocrResult,
          markingResults, pPending, threw, llmCalled, req, grade, chem,
          paper, markscheme, upload, reply>>

\* the paper, its mark scheme, the upload run and the last response
schemeVars == <<paper, markscheme, upload, reply>>

\* what no step of the submission, its run or its requests changes: the
\* environment setting, and the call of markQuestion modelled on its own
fixedVars == <<useOpenAI, grade, chem, schemeVars>>

dbVars == <<status, errorMessage, ocrText, totalScore, score, maxScore,
            scoresPass, results>>
ocrVars == <<attempts, ocrFailure, ocrResult>>

\* rows and locals of the mark-scheme routes
NoPaper == [exists |-> FALSE, totalMarks |-> 0, totalSubparts |-> 0]
NoMarkscheme == [exists |-> FALSE, content |-> "none", questions |-> <<>>,
                 totalMarks |-> 0, questionCount |-> 0, isActive |-> FALSE]
IdleUpload == [pc |-> "idle", totalMarks |-> 0, questions |-> <<>>,
               calls |-> 0, cause |-> "none"]
NoReply == [op |-> "none", outcome |-> "none", warnings |-> {}, calls |-> 0,
            cause |-> "none"]

\* the paper of the submission and its mark scheme (Q1, Q2), stored active
SeededPaper ==
    [exists |-> TRUE, totalMarks |-> Q1.maxMarks + Q2.maxMarks, totalSubparts |-> 2]
SeededMarkscheme ==
    [exists |-> TRUE, content |-> "parsed",
     questions |-> <<Q1.maxMarks, Q2.maxMarks>>,
     totalMarks |-> Q1.maxMarks + Q2.maxMarks, questionCount |-> 2,
     isActive |-> TRUE]

\* no mark-scheme route is in progress
SchemeAtRest ==
    /\ paper = SeededPaper
    /\ markscheme = SeededMarkscheme
    /\ upload = IdleUpload
    /\ reply = NoReply

IdleRequest == [pc |-> "idle", idx |-> 1, ocr |-> <<>>, total |-> 0, max |-> 0]

Init ==
    /\ status = "NONE"
    /\ errorMessage = NullVal
    /\ ocrText = NullVal
    /\ totalScore = NullNum
    /\ score = NullNum
    /\ maxScore = NullNum
    /\ scoresPass = NoPass
    /\ results = EmptyBag
    /\ useOpenAI \in BOOLEAN
    /\ ppc = "idle"
    /\ pErr = NoErr
    /\ attempts = 0
    /\ ocrFailure = "none"
    /\ ocrResult = <<>>
    /\ markingResults = NoResponse
    /\ pPending = {}
    /\ threw = FALSE
    /\ llmCalled = FALSE
    /\ req = [r \in Requests |-> IdleRequest]
    /\ grade = NoGrade
    /\ chem = NoChem
    /\ SchemeAtRest

\* ------------------------------------------------------------------------
\* POST / (create submission) and processSubmissionAsync
\* ------------------------------------------------------------------------

\* POST /: the Submission row is created UPLOADED and the run is started
Submit ==
    /\ status = "NONE"
    /\ status' = "UPLOADED"
    /\ ppc' = "set_processing"
    /\ UNCHANGED <<errorMessage, ocrText, totalScore, score, maxScore, scoresPass,
                   results, fixedVars, pErr, attempts, ocrFailure, ocrResult,
                   markingResults, pPending, threw, llmCalled, req>>

\* control reaches the catch block with the thrown value e
Throw(e) ==
    /\ ppc' = "catch"
    /\ pErr' = e
    /\ threw' = TRUE

\* await prisma.submission.update({ data: { status: 'PROCESSING' } })
PipeSetProcessing ==
    /\ ppc = "set_processing"
    /\ \/ /\ status' = "PROCESSING"
          /\ ppc' = "find"
          /\ UNCHANGED <<pErr, threw>>
       \/ /\ \E e \in ThrownValues : Throw(e)
          /\ UNCHANGED status
    /\ UNCHANGED <<errorMessage, ocrText, totalScore, score, maxScore, scoresPass,
                   results, fixedVars, attempts, ocrFailure, ocrResult,
                   markingResults, pPending, llmCalled, req>>

\* await prisma.submission.findUnique(...) with the paper's mark scheme
PipeFindSubmission ==
    /\ ppc = "find"
    /\ \/ /\ ppc' = "read_file"
          /\ UNCHANGED <<pErr, threw>>
       \/ \E e \in ThrownValues : Throw(e)
    /\ UNCHANGED <<dbVars, fixedVars, ocrVars, markingResults, pPending,
                   llmCalled, req>>

\* fs.readFileSync(submission.filePath)
PipeReadFile ==
    /\ ppc = "read_file"
    /\ \/ /\ ppc' = "ocr_upload"
          /\ UNCHANGED <<pErr, threw>>
       \/ \E e \in ThrownValues : Throw(e)
    /\ UNCHANGED <<dbVars, fixedVars, ocrVars, markingResults, pPending,
                   llmCalled, req>>

\* every throw inside processPDF is caught there and rethrown as one Error
OcrFail(cause) ==
    /\ ocrFailure' = cause
    /\ Throw(Err(OcrFailedMessage))

\* processPDF up to the polling loop: size check, upload, pdf_id
OcrUpload ==
    /\ ppc = "ocr_upload"
    /\ \/ /\ ppc' = "ocr_poll"
          /\ UNCHANGED <<ocrFailure, pErr, threw>>
       \/ \E cause \in {"too_large", "upload_rejected", "no_pdf_id", "unavailable"} :
              OcrFail(cause)
    /\ attempts' = 0
    /\ UNCHANGED <<dbVars, fixedVars, ocrResult, markingResults, pPending,
                   llmCalled, req>>

\* the loop as it would be with while (attempts <= maxAttempts): one poll more
OcrPollOneMore ==
    /\ ppc = "ocr_poll"
    /\ attempts <= maxAttempts
    /\ \E response \in {"http_error", "pending", "completed", "error", "unavailable"} :
          CASE response \in {"http_error", "pending"} ->
                  IF attempts + 1 <= maxAttempts
                  THEN /\ attempts' = attempts + 1
                       /\ UNCHANGED <<ppc, ocrFailure, pErr, threw>>
                  ELSE /\ attempts' = 0
                       /\ OcrFail("timeout")
            [] response = "completed" ->
                  /\ ppc' = "ocr_download"
                  /\ attempts' = 0
                  /\ UNCHANGED <<ocrFailure, pErr, threw>>
            [] response = "error" ->
                  /\ OcrFail("provider_error")
                  /\ attempts' = 0
            [] response = "unavailable" ->
                  /\ OcrFail("unavailable")
                  /\ attempts' = 0
    /\ UNCHANGED <<dbVars, fixedVars, ocrResult, markingResults, pPending,
                   llmCalled, req>>

\* one iteration of while (attempts < maxAttempts): wait, then poll the
\* provider; leaving the loop without a result throws 'PDF processing timeout'
\* (attempts, a local of processPDF, is gone once the loop is left)
OcrPoll ==
    /\ ppc = "ocr_poll"
    /\ attempts < maxAttempts
    /\ \E response \in {"http_error", "pending", "completed", "error", "unavailable"} :
          CASE response \in {"http_error", "pending"} ->
                  IF attempts + 1 < maxAttempts
                  THEN /\ attempts' = attempts + 1
                       /\ UNCHANGED <<ppc, ocrFailure, pErr, threw>>
                  ELSE /\ attempts' = 0
                       /\ OcrFail("timeout")
            [] response = "completed" ->
                  /\ ppc' = "ocr_download"
                  /\ attempts' = 0
                  /\ UNCHANGED <<ocrFailure, pErr, threw>>
            [] response = "error" ->
                  /\ OcrFail("provider_error")
                  /\ attempts' = 0
            [] response = "unavailable" ->
                  /\ OcrFail("unavailable")
                  /\ attempts' = 0
    /\ UNCHANGED <<dbVars, fixedVars, ocrResult, markingResults, pPending,
                   llmCalled, req>>

\* step 3 of processPDF: download the converted text ('' when it fails)
OcrDownload ==
    /\ ppc = "ocr_download"
    /\ \E text \in OcrTexts : ocrResult' = text
    /\ ppc' = "set_ocr_complete"
    /\ UNCHANGED <<dbVars, fixedVars, attempts, ocrFailure, pErr, threw,
                   markingResults, pPending, llmCalled, req>>

\* await prisma.submission.update({ status: 'OCR_COMPLETE', ocrText, ... })
PipeSetOcrComplete ==
    /\ ppc = "set_ocr_complete"
    /\ \/ /\ status' = "OCR_COMPLETE"
          /\ ocrText' = Some(ocrResult)
          /\ ppc' = "set_marking"
          /\ UNCHANGED <<pErr, threw>>
       \/ /\ \E e \in ThrownValues : Throw(e)
          /\ UNCHANGED <<status, ocrText>>
    /\ UNCHANGED <<errorMessage, totalScore, score, maxScore, scoresPass,
                   results, fixedVars, ocrVars, markingResults, pPending,
                   llmCalled, req>>

\* await prisma.submission.update({ data: { status: 'MARKING' } })
PipeSetMarking ==
    /\ ppc = "set_marking"
    /\ \/ /\ status' = "MARKING"
          /\ ppc' = "mark"
          /\ UNCHANGED <<pErr, threw>>
       \/ /\ \E e \in ThrownValues : Throw(e)
          /\ UNCHANGED status
    /\ UNCHANGED <<errorMessage, ocrText, totalScore, score, maxScore, scoresPass,
                   results, fixedVars, ocrVars, markingResults, pPending,
                   llmCalled, req>>

\* await markingService.markSubmission(...), then the log line that reads
\* markingResults.questionResults.length
PipeMarkSubmission ==
    /\ ppc = "mark"
    /\ llmCalled' = TRUE
    /\ \/ \E response \in SubmissionResponses :
              /\ markingResults' = response
              /\ IF response.questionResults.isNull
                 THEN Throw(Err(<<"Cannot", "read", "properties", "of", "undefined">>))
                 ELSE /\ ppc' = "delete"
                      /\ UNCHANGED <<pErr, threw>>
       \/ /\ \E msg \in {OpenAIKeyMessage, OpenAIFailedMessage} : Throw(Err(msg))
          /\ UNCHANGED markingResults
    /\ UNCHANGED <<dbVars, fixedVars, ocrVars, pPending, req>>

\* the MarkingResult row written for one question result by a grading pass
Row(result, pass) ==
    [questionId |-> result.questionId, marksAwarded |-> result.marksAwarded,
     maxMarks |-> result.maxMarks, pass |-> pass]

\* the storage step without the await on Promise.all: the run goes on to
\* the MARKING_COMPLETE update while its creates are pending
PipeDeleteResultsNoAwait ==
    /\ ppc = "delete"
    /\ results' = EmptyBag
    /\ pPending' = 1..Len(markingResults.questionResults.v)
    /\ ppc' = "set_complete"
    /\ UNCHANGED <<status, errorMessage, ocrText, totalScore, score, maxScore,
                   scoresPass, fixedVars, ocrVars, markingResults, llmCalled,
                   req, pErr, threw>>

\* await prisma.markingResult.deleteMany({ where: { submissionId } }); the
\* creates of resultPromises are then all handed to Promise.all at once
PipeDeleteResults ==
    /\ ppc = "delete"
    /\ \/ /\ results' = EmptyBag
          /\ pPending' = 1..Len(markingResults.questionResults.v)
          /\ ppc' = IF markingResults.questionResults.v = <<>>
                    THEN "set_complete" ELSE "store"
          /\ UNCHANGED <<pErr, threw>>
       \/ /\ \E e \in ThrownValues : Throw(e)
          /\ UNCHANGED <<results, pPending>>
    /\ UNCHANGED <<status, errorMessage, ocrText, totalScore, score, maxScore,
                   scoresPass, fixedVars, ocrVars, markingResults, llmCalled, req>>

\* one prisma.markingResult.create of resultPromises settles.  Promise.all
\* resolves when the last one succeeds and rejects at the first failure; the
\* creates still pending at that moment keep running
PipeCreateResult ==
    \E i \in pPending :
        /\ pPending' = pPending \ {i}
        /\ \/ /\ results' = results (+)
                     SetToBag({Row(markingResults.questionResults.v[i], PipelinePass)})
              /\ ppc' = IF ppc = "store" /\ pPending = {i} THEN "set_complete" ELSE ppc
              /\ UNCHANGED <<pErr, threw>>
           \/ /\ IF ppc = "store"
                 THEN \E e \in ThrownValues : Throw(e)
                 ELSE UNCHANGED <<ppc, pErr, threw>>
              /\ UNCHANGED results
        /\ UNCHANGED <<status, errorMessage, ocrText, totalScore, score, maxScore,
                       scoresPass, fixedVars, ocrVars, markingResults, llmCalled, req>>

\* await prisma.submission.update({ status: 'MARKING_COMPLETE', totalScore, ... })
PipeSetComplete ==
    /\ ppc = "set_complete"
    /\ \/ /\ status' = "MARKING_COMPLETE"
          /\ totalScore' = Some(markingResults.totalScore)
          /\ maxScore' = Some(markingResults.maxScore)
          /\ scoresPass' = PipelinePass
          /\ ppc' = "done"
          /\ UNCHANGED <<pErr, threw>>
       \/ /\ \E e \in ThrownValues : Throw(e)
          /\ UNCHANGED <<status, totalScore, maxScore, scoresPass>>
    /\ UNCHANGED <<errorMessage, ocrText, score, results, fixedVars, ocrVars,
                   markingResults, pPending, llmCalled, req>>

\* the catch block: classify the message and record FAILED; when this update
\* throws, nothing catches it and the run ends
PipeCatch ==
    /\ ppc = "catch"
    /\ \/ /\ status' = "FAILED"
          /\ errorMessage' = Some(detailedErrorMessage(pErr))
       \/ UNCHANGED <<status, errorMessage>>
    /\ ppc' = "done"
    /\ pErr' = NoErr
    /\ UNCHANGED <<ocrText, totalScore, score, maxScore, scoresPass, results,
                   fixedVars, ocrVars, markingResults, pPending, threw,
                   llmCalled, req>>

\* ------------------------------------------------------------------------
\* POST /submissions/:id/mark and MarkingEngine.markSubmission
\* ------------------------------------------------------------------------

DoneRequest == [pc |-> "done", idx |-> 1, ocr |-> <<>>, total |-> 0, max |-> 0]

pipeVars == <<ppc, pErr, attempts, ocrFailure, ocrResult, markingResults,
              pPending, threw, llmCalled>>

\* the handler reads the submission and checks its status, once
MarkFind(r) ==
    /\ req[r].pc = "idle"
    /\ status # "NONE"
    /\ req' = [req EXCEPT ![r] =
                  IF status \in {"OCR_COMPLETE", "MARKING_COMPLETE"}
                  THEN [@ EXCEPT !.pc = "engine_find"]
                  ELSE DoneRequest]
    /\ UNCHANGED <<dbVars, fixedVars, pipeVars>>

\* markSubmission: findUnique, then extractAnswersFromOCR(ocrText || '')
EngineFind(r) ==
    /\ req[r].pc = "engine_find"
    /\ \/ req' = [req EXCEPT ![r] =
                     [pc |-> "loop", idx |-> 1,
                      ocr |-> IF ocrText.isNull THEN <<[qid |-> "", text |-> <<>>]>>
                              ELSE ocrText.v,
                      total |-> 0, max |-> 0]]
       \/ req' = [req EXCEPT ![r] = DoneRequest]
    /\ UNCHANGED <<dbVars, fixedVars, pipeVars>>

\* one iteration of for (const question of markscheme.questions): mark the
\* question, then await prisma.markingResult.create; a failing create ends
\* the request with the rows written so far left in place
EngineMarkQuestion(r) ==
    /\ req[r].pc = "loop"
    /\ LET question == Markscheme.questions[req[r].idx]
           answer == answerFor(extractAnswersFromOCR(req[r].ocr), question.id)
           last == req[r].idx = Len(Markscheme.questions)
       IN  \E response \in AnswerResponses :
             LET result == markQuestion(question, answer, Markscheme, useOpenAI, response)
             IN  \/ /\ results' = results (+) SetToBag({Row(result, r)})
                    /\ req' = [req EXCEPT ![r] =
                                 [pc |-> IF last THEN "update_scores" ELSE "loop",
                                  idx |-> IF last THEN 1 ELSE @.idx + 1,
                                  ocr |-> IF last THEN <<>> ELSE @.ocr,
                                  total |-> @.total + result.marksAwarded,
                                  max |-> @.max + result.maxMarks]]
                 \/ /\ req' = [req EXCEPT ![r] = DoneRequest]
                    /\ UNCHANGED results
    /\ UNCHANGED <<status, errorMessage, ocrText, totalScore, score, maxScore,
                   scoresPass, fixedVars, pipeVars>>

\* await prisma.submission.update({ score, maxScore, percentage, feedback })
EngineUpdateScores(r) ==
    /\ req[r].pc = "update_scores"
    /\ \/ /\ score' = Some(req[r].total)
          /\ maxScore' = Some(req[r].max)
          /\ scoresPass' = r
          /\ req' = [req EXCEPT ![r] = [DoneRequest EXCEPT !.pc = "set_complete"]]
       \/ /\ req' = [req EXCEPT ![r] = DoneRequest]
          /\ UNCHANGED <<score, maxScore, scoresPass>>
    /\ UNCHANGED <<status, errorMessage, ocrText, totalScore, results,
                   fixedVars, pipeVars>>

\* back in the handler: await prisma.submission.update({ status: 'MARKING_COMPLETE' })
MarkSetComplete(r) ==
    /\ req[r].pc = "set_complete"
    /\ \/ status' = "MARKING_COMPLETE"
       \/ UNCHANGED status
    /\ req' = [req EXCEPT ![r] = DoneRequest]
    /\ UNCHANGED <<errorMessage, ocrText, totalScore, score, maxScore, scoresPass,
                   results, fixedVars, pipeVars>>

PipelineNext ==
    \/ PipeSetProcessing
    \/ PipeFindSubmission
    \/ PipeReadFile
    \/ OcrUpload
    \/ OcrPoll
    \/ OcrDownload
    \/ PipeSetOcrComplete
    \/ PipeSetMarking
    \/ PipeMarkSubmission
    \/ PipeDeleteResults
    \/ PipeCreateResult
    \/ PipeSetComplete
    \/ PipeCatch

\* maxScore: submission.maxScore || 23
defaultMaxScore == 23

\* GET /submissions/:id/results: the body sent for the submission as the
\* findFirst read it: scores when totalScore is not null, and every
\* MarkingResult row of the submission, whatever its status
getResults ==
    [success |-> status # "NONE",
     status |-> status,
     scores |-> IF totalScore.isNull
                THEN [isNull |-> TRUE, totalScore |-> 0, maxScore |-> 0]
                ELSE [isNull |-> FALSE, totalScore |-> totalScore.v,
                      maxScore |-> IF maxScore.isNull \/ maxScore.v = 0
                                   THEN defaultMaxScore ELSE maxScore.v],
     questionResults |-> IF status = "NONE" THEN EmptyBag ELSE results]

\* the handler reads the submission with its rows and writes nothing
GetResults ==
    /\ getResults.success
    /\ UNCHANGED vars

\* the variables of the submission, its run and its mark requests
submissionVars ==
    <<status, errorMessage, ocrText, totalScore, score, maxScore, scoresPass,
      results, ppc, pErr, attempts, ocrFailure, ocrResult, markingResults,
      pPending, threw, llmCalled, req>>

Next ==
    \/ Submit
    \/ PipelineNext
    \/ \E r \in Requests : MarkFind(r)
    \/ \E r \in Requests : EngineFind(r)
    \/ \E r \in Requests : EngineMarkQuestion(r)
    \/ \E r \in Requests : EngineUpdateScores(r)
    \/ \E r \in Requests : MarkSetComplete(r)
    \/ GetResults

Spec == Init /\ [][Next]_vars

\* ------------------------------------------------------------------------
\* markQuestion called on its own: every question type, blank and written
\* answers, the language-model fallback on and off
\* ------------------------------------------------------------------------

InitGrade ==
    /\ status = "NONE"
    /\ errorMessage = NullVal
    /\ ocrText = NullVal
    /\ totalScore = NullNum
    /\ score = NullNum
    /\ maxScore = NullNum
    /\ scoresPass = NoPass
    /\ results = EmptyBag
    /\ useOpenAI \in BOOLEAN
    /\ ppc = "idle"
    /\ pErr = NoErr
    /\ attempts = 0
    /\ ocrFailure = "none"
    /\ ocrResult = <<>>
    /\ markingResults = NoResponse
    /\ pPending = {}
    /\ threw = FALSE
    /\ llmCalled = FALSE
    /\ req = [r \in Requests |-> IdleRequest]
    /\ \E question \in GradeQuestions, answer \in GradeAnswers,
          response \in GradeResponses :
          grade = [NoGrade EXCEPT !.pc = "call", !.question = question,
                                  !.answer = answer, !.response = response]
    /\ chem = NoChem
    /\ SchemeAtRest

\* const result = await this.markQuestion(question, answer, markscheme)
GradeMarkQuestion ==
    /\ grade.pc = "call"
    /\ grade' = [grade EXCEPT
                    !.pc = "returned",
                    !.result = markQuestion(grade.question, grade.answer, Markscheme,
                                            useOpenAI, grade.response),
                    !.policy = policyOf(grade.question, trim(grade.answer), useOpenAI)]
    /\ UNCHANGED <<submissionVars, useOpenAI, chem, schemeVars>>

NextGrade == GradeMarkQuestion

SpecGrade == InitGrade /\ [][NextGrade]_vars

\* ------------------------------------------------------------------------
\* ChemistryUtils called on its own: parseEquation, compareEquations,
\* validateFormula and standardizeFormula on equation and formula texts
\* ------------------------------------------------------------------------
EqWater == <<"2","H","2"," ","+"," ","O","2"," ","="," ","2","H","2","O">>
EqWaterUnbalanced == <<"H","2"," ","+"," ","O","2"," ","="," ","H","2","O">>
EqWaterDoubledPlus == <<"2","H","2"," ","+"," ","+"," ","O","2"," ","="," ","2","H","2","O">>
EqWaterReordered == <<"O","2"," ","+"," ","2","H","2"," ","="," ","2","H","2","O">>
EqWaterLowerCase == <<"2","h","2"," ","+"," ","o","2"," ","="," ","2","h","2","o">>
EqWaterSpaced == <<"2","H"," ","2"," ","+"," ","O","2"," ","="," ","2","H","2"," ","O">>
EqWaterArrow == <<"2","H","2"," ","+"," ","O","2"," ","→"," ","2","H","2","O">>
EqWaterRepeated == <<"H","2"," ","+"," ","H","2"," ","+"," ","O","2"," ","="," ","2","H","2","O">>
EqNoSeparator == <<"H","2","O">>
EqZeroCoefficient == <<"0","H","2"," ","="," ","H","2">>
EqSalt == <<"N","a"," ","+"," ","C","l"," ","="," ","N","a","C","l">>
EqWaterHalved == <<"H","2"," ","+"," ","O","2"," ","="," ","2","H","2","O">>

Equations ==
    { EqWater, EqWaterUnbalanced, EqWaterDoubledPlus, EqWaterReordered,
      EqWaterLowerCase, EqWaterSpaced, EqWaterArrow,
      EqWaterRepeated, EqNoSeparator, EqZeroCoefficient, EqSalt, EqWaterHalved }

FWater == <<"H","2","O">>
FWaterSpaced == <<"H"," ","2"," ","O">>
FWaterSubscript == <<"H","₂","O">>
FBracketed == <<"C","a","(","O","H",")","2">>
FSalt == <<"N","a","C","l">>
FLower == <<"h","2","o">>
FUnknown == <<"X","e","2">>
FEmpty == <<>>
FBlank == <<" "," ">>
FDigits == <<"2","2">>
FSquare == <<"[","M","g","]"," ","O">>
FSpacedSubscript == <<"C"," ","O","₂">>

Formulas ==
    { FWater, FWaterSpaced, FWaterSubscript, FBracketed, FSalt,
      FLower, FUnknown, FEmpty, FBlank, FDigits, FSquare, FSpacedSubscript }

ChemCall(op, a, b) == [NoChem EXCEPT !.pc = "call", !.op = op, !.a = a, !.b = b]

InitChem ==
    /\ status = "NONE"
    /\ errorMessage = NullVal
    /\ ocrText = NullVal
    /\ totalScore = NullNum
    /\ score = NullNum
    /\ maxScore = NullNum
    /\ scoresPass = NoPass
    /\ results = EmptyBag
    /\ useOpenAI = FALSE
    /\ ppc = "idle"
    /\ pErr = NoErr
    /\ attempts = 0
    /\ ocrFailure = "none"
    /\ ocrResult = <<>>
    /\ markingResults = NoResponse
    /\ pPending = {}
    /\ threw = FALSE
    /\ llmCalled = FALSE
    /\ req = [r \in Requests |-> IdleRequest]
    /\ grade = NoGrade
    /\ \/ \E a \in Equations : chem = ChemCall("parseEquation", a, <<>>)
       \/ \E a \in Equations, b \in Equations :
             chem = ChemCall("compareEquations", a, b)
       \/ \E a \in Formulas : chem = ChemCall("validateFormula", a, <<>>)
       \/ \E a \in Formulas : chem = ChemCall("standardizeFormula", a, <<>>)
    /\ SchemeAtRest

chemFrame == UNCHANGED <<submissionVars, useOpenAI, grade, schemeVars>>

\* ChemistryUtils.parseEquation(equation)
ChemParseEquation ==
    /\ chem.pc = "call"
    /\ chem.op = "parseEquation"
    /\ chem' = [chem EXCEPT !.pc = "returned", !.equation = parseEquation(chem.a)]
    /\ chemFrame

\* ChemistryUtils.compareEquations(eq1, eq2)
ChemCompareEquations ==
    /\ chem.pc = "call"
    /\ chem.op = "compareEquations"
    /\ chem' = [chem EXCEPT !.pc = "returned",
                            !.equal = compareEquations(chem.a, chem.b)]
    /\ chemFrame

\* ChemistryUtils.validateFormula(formula)
ChemValidateFormula ==
    /\ chem.pc = "call"
    /\ chem.op = "validateFormula"
    /\ chem' = [chem EXCEPT !.pc = "returned",
                            !.validation = validateFormula(chem.a)]
    /\ chemFrame

\* ChemistryUtils.standardizeFormula(formula)
ChemStandardizeFormula ==
    /\ chem.pc = "call"
    /\ chem.op = "standardizeFormula"
    /\ chem' = [chem EXCEPT !.pc = "returned",
                            !.standard = standardizeFormula(chem.a)]
    /\ chemFrame

NextChem ==
    \/ ChemParseEquation
    \/ ChemCompareEquations
    \/ ChemValidateFormula
    \/ ChemStandardizeFormula

SpecChem == InitChem /\ [][NextChem]_vars

\* ------------------------------------------------------------------------
\* Mark schemes: POST /upload-pdf with processMarkschemeAsync, the admin
\* upload, the create and update routes, and POST / as the paper sees it.
\* One mark-scheme route runs at a time; a submission may arrive at any time.
\* ------------------------------------------------------------------------

MaxQuestions == 2

\* Math.abs(totalMarks - paper.totalMarks) > 5, ... - paper.totalSubparts) > 3
marksTolerance == 5
subpartsTolerance == 3

\* totalMarks of the paper POST /upload-pdf creates when it finds none
defaultPaperMarks == 100

\* maxMarks a question of the language model's JSON may carry (0: absent)
RawMarks == {0, 6}

\* the question lists of a response or of a request body: maxMarks of each
QuestionLists == UNION { [1..k -> RawMarks] : k \in 0..MaxQuestions }

\* what the structuring call returns: JSON with a reported totalMarks
\* (0: absent) and questions, content that JSON.parse rejects, or an HTTP error
LlmResponses ==
    { [kind |-> k, totalMarks |-> 0, questions |-> <<>>] :
          k \in {"malformed", "http_error"} }
    \cup { [kind |-> "json", totalMarks |-> t, questions |-> q] :
              t \in {0, 7}, q \in QuestionLists }

\* the papers an admin created: totalMarks >= 1, totalSubparts >= 1
AdminPapers == { [exists |-> TRUE, totalMarks |-> 12, totalSubparts |-> 5] }

Diff(a, b) == IF a > b THEN a - b ELSE b - a

\* MarkschemeParser.validateAndCleanParsedContent: maxMarks defaults to 1,
\* and totalMarks is summed only when the response reported none
validateAndCleanParsedContent(content) ==
    LET questions == [i \in 1..Len(content.questions) |->
                         IF content.questions[i] = 0 THEN 1
                         ELSE content.questions[i]]
    IN  [totalMarks |-> IF content.totalMarks = 0 THEN SumSeq(questions)
                        ELSE content.totalMarks,
         questions |-> questions]

\* MarkschemeParser.parseWithAI: one axios.post, JSON.parse of its content;
\* any failure is thrown on, no second request is made
parseWithAI(response) ==
    IF response.kind = "json"
    THEN LET parsed == validateAndCleanParsedContent(response)
         IN  [ok |-> TRUE, totalMarks |-> parsed.totalMarks,
              questions |-> parsed.questions, calls |-> 1, cause |-> "none"]
    ELSE [ok |-> FALSE, totalMarks |-> 0, questions |-> <<>>, calls |-> 1,
          cause |-> response.kind]

\* MarkschemeParser.parseMarkscheme: processPDF, then parseWithAI
parseMarkscheme(ocrOk, response) ==
    IF ocrOk THEN parseWithAI(response)
    ELSE [ok |-> FALSE, totalMarks |-> 0, questions |-> <<>>, calls |-> 0,
          cause |-> "ocr"]

\* the warnings as they would be with the divergence raised at the tolerance
WarningsAtTolerance(expected, totalMarks, questionCount) ==
    (IF expected.totalMarks # 0
        /\ Diff(totalMarks, expected.totalMarks) >= marksTolerance
     THEN {"marks"} ELSE {})
    \cup
    (IF expected.totalSubparts # 0
        /\ Diff(questionCount, expected.totalSubparts) >= subpartsTolerance
     THEN {"subparts"} ELSE {})

\* the validationWarnings of the admin upload
validationWarnings(expected, totalMarks, questionCount) ==
    (IF expected.totalMarks # 0
        /\ Diff(totalMarks, expected.totalMarks) > marksTolerance
     THEN {"marks"} ELSE {})
    \cup
    (IF expected.totalSubparts # 0
        /\ Diff(questionCount, expected.totalSubparts) > subpartsTolerance
     THEN {"subparts"} ELSE {})

\* the response of a handler
Reply(op, outcome, cause) ==
    [op |-> op, outcome |-> outcome, warnings |-> {}, calls |-> 0, cause |-> cause]

\* a content blob { status, stage, ... } of an upload in progress or failed
StatusBlob(row, st) ==
    [row EXCEPT !.content = st, !.questions = <<>>]

\* structured content with the counts a route stores next to it
Structured(row, kind, questions, totalMarks) ==
    [row EXCEPT !.exists = TRUE, !.content = kind, !.questions = questions,
                !.totalMarks = totalMarks, !.questionCount = Len(questions)]

InitScheme ==
    /\ status = "NONE"
    /\ errorMessage = NullVal
    /\ ocrText = NullVal
    /\ totalScore = NullNum
    /\ score = NullNum
    /\ maxScore = NullNum
    /\ scoresPass = NoPass
    /\ results = EmptyBag
    /\ useOpenAI = FALSE
    /\ ppc = "idle"
    /\ pErr = NoErr
    /\ attempts = 0
    /\ ocrFailure = "none"
    /\ ocrResult = <<>>
    /\ markingResults = NoResponse
    /\ pPending = {}
    /\ threw = FALSE
    /\ llmCalled = FALSE
    /\ req = [r \in Requests |-> IdleRequest]
    /\ grade = NoGrade
    /\ chem = NoChem
    /\ paper \in {NoPaper} \cup AdminPapers
    /\ markscheme = NoMarkscheme
    /\ upload = IdleUpload
    /\ reply = NoReply

\* POST /upload-pdf: finds or creates the paper, writes the mark scheme row
\* with the PROCESSING blob and zero counts, starts processMarkschemeAsync.
\* isActive of a created row is the column default, declared outside src/
UploadPdf ==
    /\ upload.pc = "idle"
    /\ \/ /\ \E cause \in {"no_file", "missing_fields"} :
                reply' = Reply("upload_pdf", "bad_request", cause)
          /\ UNCHANGED <<paper, markscheme, upload>>
       \/ /\ reply' = Reply("upload_pdf", "error", "db")
          /\ UNCHANGED <<paper, markscheme, upload>>
       \/ /\ paper' = IF paper.exists THEN paper
                       ELSE [exists |-> TRUE, totalMarks |-> defaultPaperMarks,
                             totalSubparts |-> 0]
          /\ IF markscheme.exists
             THEN markscheme' = [StatusBlob(markscheme, "PROCESSING") EXCEPT
                                    !.totalMarks = 0, !.questionCount = 0]
             ELSE \E active \in BOOLEAN :
                     markscheme' = [StatusBlob(NoMarkscheme, "PROCESSING") EXCEPT
                                       !.exists = TRUE, !.isActive = active]
          /\ upload' = [IdleUpload EXCEPT !.pc = "ocr_stage"]
          /\ reply' = Reply("upload_pdf", "ok", "none")
    /\ UNCHANGED <<submissionVars, useOpenAI, grade, chem>>

\* updateMarkschemeStatus: writes the blob; a failing write is only logged
updateMarkschemeStatus(st) ==
    \/ markscheme' = StatusBlob(markscheme, st)
    \/ UNCHANGED markscheme

\* updateMarkschemeStatus({ status: 'PROCESSING', stage: 'ocr_processing' })
MsStageOcr ==
    /\ upload.pc = "ocr_stage"
    /\ updateMarkschemeStatus("PROCESSING")
    /\ upload' = [upload EXCEPT !.pc = "parse"]
    /\ UNCHANGED <<submissionVars, useOpenAI, grade, chem, paper, reply>>

\* fs.readFile and markschemeParser.parseMarkscheme(pdfBuffer, filename)
MsParse ==
    /\ upload.pc = "parse"
    /\ \E fault \in {"none", "file", "ocr"}, response \in LlmResponses :
          LET parsed == parseMarkscheme(fault # "ocr", response) IN
          IF fault = "file"
          THEN upload' = [upload EXCEPT !.pc = "catch", !.cause = "file"]
          ELSE upload' = [pc |-> IF parsed.ok THEN "ai_stage" ELSE "catch",
                          totalMarks |-> parsed.totalMarks,
                          questions |-> parsed.questions,
                          calls |-> parsed.calls, cause |-> parsed.cause]
    /\ UNCHANGED <<submissionVars, useOpenAI, grade, chem, paper, markscheme, reply>>

\* updateMarkschemeStatus({ status: 'PROCESSING', stage: 'ai_parsing' })
MsStageAi ==
    /\ upload.pc = "ai_stage"
    /\ updateMarkschemeStatus("PROCESSING")
    /\ upload' = [upload EXCEPT !.pc = "store"]
    /\ UNCHANGED <<submissionVars, useOpenAI, grade, chem, paper, reply>>

\* prisma.markscheme.update({ content, totalMarks: parsedMarkscheme.totalMarks,
\* questionCount: parsedMarkscheme.questions.length })
MsStore ==
    /\ upload.pc = "store"
    /\ \/ /\ markscheme' = Structured(markscheme, "COMPLETE", upload.questions,
                                      upload.totalMarks)
          /\ upload' = IdleUpload
       \/ /\ upload' = [upload EXCEPT !.pc = "catch", !.cause = "db"]
          /\ UNCHANGED markscheme
    /\ UNCHANGED <<submissionVars, useOpenAI, grade, chem, paper, reply>>

\* the catch block: updateMarkschemeStatus({ status: 'FAILED', ... })
MsCatch ==
    /\ upload.pc = "catch"
    /\ updateMarkschemeStatus("FAILED")
    /\ upload' = IdleUpload
    /\ UNCHANGED <<submissionVars, useOpenAI, grade, chem, paper, reply>>

\* prisma.markscheme.upsert of the admin upload: counts recomputed, active
AdminStore(parsed) ==
    Structured([markscheme EXCEPT !.isActive = TRUE], "parsed",
               parsed.questions, SumSeq(parsed.questions))

\* POST /papers/:paperId/markscheme, from the parse result on: the counts are
\* recomputed, compared with the paper's, and stored with the mark scheme
AdminStoreParsed(parsed, fault) ==
    LET totalMarks == SumSeq(parsed.questions)
        questionCount == Len(parsed.questions)
    IN  IF fault = "upsert"
        THEN /\ reply' = [Reply("admin_upload", "error", "db")
                             EXCEPT !.calls = parsed.calls]
             /\ UNCHANGED <<paper, markscheme>>
        ELSE /\ markscheme' = AdminStore(parsed)
             /\ IF paper.totalMarks # totalMarks /\ fault = "paper_update"
                THEN /\ reply' = [Reply("admin_upload", "error", "db")
                                     EXCEPT !.calls = parsed.calls]
                     /\ UNCHANGED paper
                ELSE /\ paper' = [paper EXCEPT !.totalMarks = totalMarks]
                     /\ reply' = [Reply("admin_upload", "created", "none") EXCEPT
                                     !.calls = parsed.calls,
                                     !.warnings = validationWarnings(
                                         paper, totalMarks, questionCount)]

\* POST /papers/:paperId/markscheme; fault is the database call that throws
AdminUpload ==
    /\ upload.pc = "idle"
    /\ \/ /\ reply' = Reply("admin_upload", "validation", "no_file")
          /\ UNCHANGED <<paper, markscheme>>
       \/ /\ ~paper.exists
          /\ reply' = Reply("admin_upload", "not_found", "paper")
          /\ UNCHANGED <<paper, markscheme>>
       \/ /\ paper.exists
          /\ \E ocrOk \in BOOLEAN, response \in LlmResponses :
                LET parsed == parseMarkscheme(ocrOk, response) IN
                /\ ~parsed.ok
                /\ reply' = [Reply("admin_upload", "error", parsed.cause)
                                EXCEPT !.calls = parsed.calls]
          /\ UNCHANGED <<paper, markscheme>>
       \/ /\ paper.exists
          /\ \E response \in LlmResponses,
                fault \in {"none", "upsert", "paper_update"} :
                LET parsed == parseMarkscheme(TRUE, response) IN
                /\ parsed.ok
                /\ AdminStoreParsed(parsed, fault)
    /\ UNCHANGED <<submissionVars, useOpenAI, grade, chem, upload>>

\* POST /markschemes: the counts are computed from content.questions
CreateMarkscheme ==
    /\ upload.pc = "idle"
    /\ \/ /\ ~paper.exists
          /\ reply' = Reply("create", "not_found", "paper")
          /\ UNCHANGED markscheme
       \/ /\ paper.exists /\ markscheme.exists
          /\ reply' = Reply("create", "validation", "exists")
          /\ UNCHANGED markscheme
       \/ /\ paper.exists /\ ~markscheme.exists
          /\ reply' = Reply("create", "error", "db")
          /\ UNCHANGED markscheme
       \/ /\ paper.exists /\ ~markscheme.exists
          /\ \E questions \in QuestionLists :
                markscheme' = Structured([NoMarkscheme EXCEPT !.isActive = TRUE],
                                         "given", questions, SumSeq(questions))
          /\ reply' = Reply("create", "created", "none")
    /\ UNCHANGED <<submissionVars, useOpenAI, grade, chem, paper, upload>>

\* PUT /markschemes/:id
UpdateMarkscheme ==
    /\ upload.pc = "idle"
    /\ \/ /\ ~markscheme.exists
          /\ reply' = Reply("update", "not_found", "markscheme")
          /\ UNCHANGED markscheme
       \/ /\ markscheme.exists
          /\ reply' = Reply("update", "error", "db")
          /\ UNCHANGED markscheme
       \/ /\ markscheme.exists
          /\ \E questions \in QuestionLists :
                markscheme' = Structured(markscheme, "given", questions,
                                         SumSeq(questions))
          /\ reply' = Reply("update", "ok", "none")
    /\ UNCHANGED <<submissionVars, useOpenAI, grade, chem, paper, upload>>

\* POST / (create submission): the paper is looked up with its mark scheme;
\* only the presence of the two rows is tested
PostSubmission ==
    /\ status = "NONE"
    /\ \E hasFile \in BOOLEAN, createOk \in BOOLEAN :
          IF ~hasFile
          THEN /\ reply' = Reply("submit", "validation", "no_file")
               /\ UNCHANGED <<status, ppc>>
          ELSE IF ~paper.exists
          THEN /\ reply' = Reply("submit", "not_found", "paper")
               /\ UNCHANGED <<status, ppc>>
          ELSE IF ~markscheme.exists
          THEN /\ reply' = Reply("submit", "validation", "no_markscheme")
               /\ UNCHANGED <<status, ppc>>
          ELSE IF ~createOk
          THEN /\ reply' = Reply("submit", "error", "db")
               /\ UNCHANGED <<status, ppc>>
          ELSE /\ status' = "UPLOADED"
               /\ ppc' = "set_processing"
               /\ reply' = Reply("submit", "created", "none")
    /\ UNCHANGED <<errorMessage, ocrText, totalScore, score, maxScore, scoresPass,
                   results, useOpenAI, grade, chem, pErr, attempts, ocrFailure,
                   ocrResult, markingResults, pPending, threw, llmCalled, req,
                   paper, markscheme, upload>>

NextScheme ==
    \/ UploadPdf
    \/ MsStageOcr
    \/ MsParse
    \/ MsStageAi
    \/ MsStore
    \/ MsCatch
    \/ AdminUpload
    \/ CreateMarkscheme
    \/ UpdateMarkscheme
    \/ PostSubmission

SpecScheme == InitScheme /\ [][NextScheme]_vars

\* ------------------------------------------------------------------------
\* Properties of the submission life cycle (spec.md sections 4.1, 7, 8)
\* ------------------------------------------------------------------------

\* position of a status in UPLOADED -> PROCESSING -> OCR_COMPLETE -> MARKING
\* -> MARKING_COMPLETE, with FAILED last
StatusRank(s) ==
    CASE s = "NONE" -> 0
      [] s = "UPLOADED" -> 1
      [] s = "PROCESSING" -> 2
      [] s = "OCR_COMPLETE" -> 3
      [] s = "MARKING" -> 4
      [] s = "MARKING_COMPLETE" -> 5
      [] s = "FAILED" -> 6

\* rows of the MarkingResult table written by one grading pass
RowsOfPass(bag, pass) == { row \in BagToSet(bag) : row.pass = pass }

\* number of stored rows for one question id
RowCount(bag, questionId) ==
    LET rows == { row \in BagToSet(bag) : row.questionId = questionId }
        Count[S \in SUBSET rows] ==
            IF S = {} THEN 0
            ELSE LET row == CHOOSE x \in S : TRUE
                 IN  CopiesIn(row, bag) + Count[S \ {row}]
    IN  Count[rows]

\* number of stored rows written by one grading pass
PassRowCount(bag, pass) ==
    LET rows == RowsOfPass(bag, pass)
        Count[S \in SUBSET rows] ==
            IF S = {} THEN 0
            ELSE LET row == CHOOSE x \in S : TRUE
                 IN  CopiesIn(row, bag) + Count[S \ {row}]
    IN  Count[rows]

\* C1: the persisted status only moves forward along UPLOADED -> PROCESSING
\* -> OCR_COMPLETE -> MARKING -> MARKING_COMPLETE (or to FAILED); no write of
\* the pipeline run or of a mark request puts it back to an earlier state.
StatusOnlyMovesForward ==
    [][status' # status =>
          \/ status' = "FAILED"
          \/ StatusRank(status') > StatusRank(status)]_vars

\* C2: FAILED and MARKING_COMPLETE are terminal: once the status is one of
\* them, no later write changes it to a different status.
TerminalStatusesStay ==
    [][(status \in {"FAILED", "MARKING_COMPLETE"}) => (status' = status)]_vars

\* C3: a pipeline run that has ended left the submission FAILED or
\* MARKING_COMPLETE, also when the write that records FAILED threw.
RunEndsFailedOrComplete ==
    ppc = "done" => status \in {"FAILED", "MARKING_COMPLETE"}

\* C3, the state that breaks it: the first status update threw, the FAILED
\* update threw as well, and the run is over with the status it started with
RunEndedNotTerminal ==
    ppc = "done" /\ threw /\ status \in {"UPLOADED", "PROCESSING", "OCR_COMPLETE", "MARKING"}

\* C4: once a stage of the run has thrown, the run makes no further OCR call,
\* no marking call and no MarkingResult write, and its only remaining step
\* is the status write to FAILED.
NoStageAfterException ==
    [][threw =>
          /\ attempts' = attempts /\ ocrResult' = ocrResult
          /\ llmCalled' = llmCalled /\ markingResults' = markingResults
          /\ PassRowCount(results', PipelinePass) = PassRowCount(results, PipelinePass)
          /\ (ppc' # ppc => ppc = "catch" /\ ppc' = "done" /\ status' = "FAILED")]_vars

\* C4, the state that breaks it: the run is in its catch block, or past it,
\* while creates it started are still to be written
CreatesInFlightAfterException ==
    threw /\ ppc \in {"catch", "done"} /\ pPending # {}

\* C5: a FAILED submission has a non-empty errorMessage, whatever was thrown.
FailedHasErrorMessage ==
    status = "FAILED" => ~errorMessage.isNull /\ errorMessage.v # <<>>

\* C5, the state that breaks it: new Error('') was thrown and stored as is
FailedWithEmptyMessage ==
    status = "FAILED" /\ errorMessage = Some(<<>>)

\* C6: a MARKING_COMPLETE submission has exactly one MarkingResult row for
\* each question of the mark scheme, and no row for anything else.
CompleteHasOneRowPerQuestion ==
    status = "MARKING_COMPLETE" =>
        /\ \A q \in QuestionIds : RowCount(results, q) = 1
        /\ \A row \in BagToSet(results) : row.questionId \in QuestionIds

\* C6, the state that breaks it: the run completed with the rows the
\* language model named, one of them for no question of the mark scheme
CompleteWithForeignRow ==
    /\ status = "MARKING_COMPLETE"
    /\ ppc = "done"
    /\ \E row \in BagToSet(results) : row.questionId \notin QuestionIds

\* C7: when a grading pass completes (the run's creates have all resolved,
\* or a mark request's loop has stored its last question), the stored rows
\* are the rows of that pass only, at most one per question.
GradingReplacesPriorResults ==
    [][\A pass \in {PipelinePass} \cup Requests :
          (IF pass = PipelinePass
           THEN ppc = "store" /\ ppc' = "set_complete"
           ELSE req[pass].pc = "loop" /\ req'[pass].pc = "update_scores")
          => /\ \A row \in BagToSet(results') : row.pass = pass
             /\ \A row \in BagToSet(results') : RowCount(results', row.questionId) = 1]_vars

\* C7, the state that breaks it: the run completed, a mark request then
\* completed, and the rows of both passes are stored
RowsOfTwoPasses ==
    /\ ppc = "done" /\ ~threw
    /\ \E r \in Requests :
          /\ req[r].pc = "done" /\ scoresPass = r
          /\ PassRowCount(results, r) = Len(Markscheme.questions)
    /\ PassRowCount(results, PipelinePass) > 0

\* C8: every stored result has 0 <= marksAwarded <= maxMarks, whether it
\* came from markQuestion (programmatic or language-model path) or from the
\* run's whole-submission marking call.
MarksWithinBounds ==
    \A row \in BagToSet(results) :
        0 <= row.marksAwarded /\ row.marksAwarded <= row.maxMarks

\* C8, the state that breaks it: markShortAnswer added the marks of two
\* marking points of one mark each to a question worth one mark
KeywordMarksAboveMax ==
    /\ ~useOpenAI
    /\ \E row \in BagToSet(results) :
          row.pass # PipelinePass /\ row.marksAwarded > row.maxMarks

\* C9: results commit atomically with the move to MARKING_COMPLETE: while the
\* status is anything else no row and no score field is stored, and while it
\* is MARKING_COMPLETE no grading pass is part-way through its writes.
ResultsCommitWithStatus ==
    /\ status # "MARKING_COMPLETE" =>
          results = EmptyBag /\ score.isNull /\ totalScore.isNull
    /\ status = "MARKING_COMPLETE" =>
          /\ ppc # "store" /\ pPending = {}
          /\ \A r \in Requests : req[r].pc \notin {"loop", "update_scores"}

\* C9, the state that breaks it: a create of the run failed, the submission
\* is FAILED, and rows of that run are stored
FailedWithRows ==
    status = "FAILED" /\ PassRowCount(results, PipelinePass) > 0

\* C10: a run whose extraction failed by exhausting the polling budget ends
\* FAILED with a non-empty errorMessage and no MarkingResult row, and never
\* made the language-model marking call.
OcrTimeoutEndsFailed ==
    (ocrFailure = "timeout" /\ ppc = "done") =>
        /\ status = "FAILED"
        /\ ~errorMessage.isNull /\ errorMessage.v # <<>>
        /\ results = EmptyBag
        /\ ~llmCalled

\* C10, the state that breaks it: the polling budget ran out, the FAILED
\* update threw, and the submission stays PROCESSING
TimeoutRunNotFailed ==
    ocrFailure = "timeout" /\ ppc = "done" /\ status = "PROCESSING"

\* ------------------------------------------------------------------------
\* Properties of markQuestion (spec.md sections 4.4, 8)
\* ------------------------------------------------------------------------

\* C11: for every question type, with the language-model fallback on or
\* off, markQuestion on an answer that is empty or only whitespace returns 0
\* marks, confidence 1.0, isCorrect false and "No answer provided", awards no
\* marking point, and takes neither the language-model branch nor a policy.
BlankAnswerScoresZero ==
    (grade.pc = "returned" /\ \A i \in 1..Len(grade.answer) : isSpace(grade.answer[i]))
    => /\ grade.result.marksAwarded = 0
       /\ grade.result.confidence = 100
       /\ grade.result.isCorrect = FALSE
       /\ grade.result.feedback = "No answer provided"
       /\ grade.result.maxMarks = grade.question.maxMarks
       /\ Len(grade.result.markingPoints) = Len(grade.question.markingPoints)
       /\ \A i \in 1..Len(grade.result.markingPoints) :
             ~grade.result.markingPoints[i].awarded
       /\ grade.policy = "none"

\* C11, its case: a whitespace-only answer to a chemical_equation question
\* was marked with the fallback on and a language-model answer at hand
BlankAnswerMarkedWithFallbackOn ==
    /\ grade.pc = "returned"
    /\ grade.answer = <<" ", "\t", "\n">>
    /\ grade.question.type = "chemical_equation"
    /\ useOpenAI
    /\ grade.response.ok

\* ------------------------------------------------------------------------
\* Properties of the stages of a run (spec.md sections 4.1, 4.2)
\* ------------------------------------------------------------------------

\* C12: the stages of a run are sequential and each transition is persisted
\* before the next stage begins: the OCR call starts with PROCESSING stored,
\* the marking stage is entered by the step that stores MARKING, which
\* follows the step that stores OCR_COMPLETE with the extracted text, the
\* marking call is made from that stage only, and the run stores
\* MARKING_COMPLETE only with every row of its pass written.
StagesPersistedInOrder ==
    [][/\ (ppc' = "find" /\ ppc # "find")
            => (ppc = "set_processing" /\ status' = "PROCESSING")
       /\ ((ppc = "ocr_upload" \/ ppc = "ocr_poll" \/ ppc = "ocr_download") /\ ppc' # ppc)
            => (status = "PROCESSING" /\ ocrText.isNull)
       /\ (ppc' = "set_ocr_complete" /\ ppc # "set_ocr_complete")
            => ppc = "ocr_download"
       /\ (ppc' = "set_marking" /\ ppc # "set_marking")
            => (ppc = "set_ocr_complete" /\ status' = "OCR_COMPLETE"
                /\ ocrText' = Some(ocrResult))
       /\ (ppc' = "mark" /\ ppc # "mark")
            => (ppc = "set_marking" /\ status' = "MARKING")
       /\ (llmCalled' /\ ~llmCalled)
            => (ppc = "mark" /\ ocrText = Some(ocrResult))
       /\ (ppc = "set_complete" /\ ppc' = "done")
            => /\ status' = "MARKING_COMPLETE"
               /\ pPending = {}
               /\ PassRowCount(results, PipelinePass)
                     = Len(markingResults.questionResults.v)]_vars

\* C12, its case: a run went through every stage and stored MARKING_COMPLETE
\* with the rows of its pass
RunStoredCompleteWithRows ==
    /\ ppc = "done" /\ ~threw /\ llmCalled
    /\ scoresPass = PipelinePass
    /\ PassRowCount(results, PipelinePass) = 2

\* C13: the polling loop of processPDF makes at most maxAttempts polls. The
\* poll made with attempts = n is poll number n + 1; it either counts one
\* attempt and stays in the loop, which it may only do while a further poll is
\* left, or leaves the loop: to the download on 'completed', to the catch on
\* 'error' or a failed request, and to the catch as a timeout exactly when
\* poll number maxAttempts did not report 'completed'.
PollingLoopTerminates ==
    [][(ppc = "ocr_poll" /\ (ppc' # ppc \/ attempts' # attempts)) =>
          /\ attempts + 1 <= maxAttempts
          /\ \/ /\ ppc' = "ocr_poll"
                /\ attempts' = attempts + 1
                /\ attempts' < maxAttempts
                /\ ocrFailure' = ocrFailure
             \/ /\ ppc' = "ocr_download"
                /\ ocrFailure' = ocrFailure
             \/ /\ ppc' = "catch"
                /\ ocrFailure' \in {"timeout", "provider_error", "unavailable"}
                /\ pErr' = Err(OcrFailedMessage)
          /\ (ocrFailure' = "timeout") => (attempts + 1 = maxAttempts)]_vars

\* a run whose polling budget ran out: the last poll was poll number maxAttempts
PollingBudgetExhausted ==
    /\ ppc = "catch"
    /\ ocrFailure = "timeout"

\* C14: when the polling budget ran out, the error that reaches the catch of
\* the run and the errorMessage stored with FAILED name a timeout, and an
\* extraction that failed for another cause (rejected upload, provider
\* 'error' status, ...) gives an error and a stored message that do not.
TimeoutErrorIsTyped ==
    /\ (ppc = "catch" /\ ocrFailure # "none") =>
           (includes(pErr.message, <<"timeout">>) <=> ocrFailure = "timeout")
    /\ (status = "FAILED" /\ ocrFailure # "none") =>
           (includes(errorMessage.v, <<"timeout">>) <=> ocrFailure = "timeout")

\* C14, the state that breaks it: the budget ran out and the stored message
\* is the one every failure of processPDF gets
TimeoutStoredAsGenericOcrFailure ==
    /\ status = "FAILED"
    /\ ocrFailure = "timeout"
    /\ errorMessage = Some(<<"OCR", "processing", "failed:">> \o OcrFailedMessage)

\* ------------------------------------------------------------------------
\* Properties of the submit route and of the mark-scheme routes
\* (spec.md sections 4.1, 4.3)
\* ------------------------------------------------------------------------

\* C15: POST / creates the UPLOADED Submission and starts the run only if the
\* paper exists and has a mark scheme that is active and whose content is not
\* the PROCESSING or FAILED blob of an upload; a validation or not-found
\* response creates no Submission and starts no run.
SubmitNeedsActiveMarkscheme ==
    [][/\ (status = "NONE" /\ status' = "UPLOADED") =>
             /\ ppc' = "set_processing"
             /\ paper.exists
             /\ markscheme.exists
             /\ markscheme.isActive
             /\ markscheme.content \notin {"PROCESSING", "FAILED"}
       /\ (reply' # reply /\ reply'.op = "submit"
              /\ reply'.outcome \in {"validation", "not_found"}) =>
             (status' = status /\ ppc' = ppc)]_vars

\* C15, the state that breaks it: the submission was accepted while the mark
\* scheme of its paper was the PROCESSING blob of an upload still being parsed
SubmissionAcceptedDuringUpload ==
    /\ status = "UPLOADED"
    /\ ppc = "set_processing"
    /\ reply = Reply("submit", "created", "none")
    /\ markscheme.content = "PROCESSING"
    /\ markscheme.isActive
    /\ upload.pc = "parse"

\* C16: for a submission that has not reached MARKING_COMPLETE, GET results
\* answers successfully with null scores and no question results.
ResultsOnlyWhenComplete ==
    (status \notin {"NONE", "MARKING_COMPLETE"}) =>
        /\ getResults.success
        /\ getResults.scores.isNull
        /\ getResults.questionResults = EmptyBag

\* C16, the state that breaks it: the run is storing the rows of its pass,
\* some are written and some are not, and the response carries those written
PartialResultsReturned ==
    /\ status = "MARKING"
    /\ ppc = "store"
    /\ pPending # {}
    /\ getResults.questionResults # EmptyBag
    /\ getResults.status = "MARKING"

\* sums of marksAwarded and of maxMarks over the stored rows
RowSums(bag) ==
    LET rows == BagToSet(bag)
        Awarded[S \in SUBSET rows] ==
            IF S = {} THEN 0
            ELSE LET row == CHOOSE x \in S : TRUE
                 IN  CopiesIn(row, bag) * row.marksAwarded + Awarded[S \ {row}]
        Max[S \in SUBSET rows] ==
            IF S = {} THEN 0
            ELSE LET row == CHOOSE x \in S : TRUE
                 IN  CopiesIn(row, bag) * row.maxMarks + Max[S \ {row}]
    IN  [marksAwarded |-> Awarded[rows], maxMarks |-> Max[rows]]

\* C17: for a graded submission with no pass in flight, the stored total
\* (totalScore on the pipeline path, score on the MarkingEngine path) is the
\* sum of marksAwarded over the stored rows and the stored maxScore is the sum
\* of their maxMarks.
StoredScoresAreRowSums ==
    (/\ status = "MARKING_COMPLETE"
     /\ ppc = "done"
     /\ \A r \in Requests : req[r].pc \in {"idle", "done"}
     /\ scoresPass # NoPass)
    => /\ ~maxScore.isNull
       /\ maxScore.v = RowSums(results).maxMarks
       /\ IF scoresPass = PipelinePass
          THEN ~totalScore.isNull /\ totalScore.v = RowSums(results).marksAwarded
          ELSE ~score.isNull /\ score.v = RowSums(results).marksAwarded

\* C17, the state that breaks it: the run stored every row of its response
\* and the totals of the same response, and the totals are not the rows' sums
PipelineTotalsDifferFromRows ==
    /\ status = "MARKING_COMPLETE"
    /\ ppc = "done"
    /\ scoresPass = PipelinePass
    /\ \A r \in Requests : req[r].pc = "idle"
    /\ PassRowCount(results, PipelinePass) = BagCardinality(results)
    /\ BagCardinality(results) = Len(markingResults.questionResults.v)
    /\ totalScore = Some(5)
    /\ RowSums(results).marksAwarded = 2

\* C18: whenever the mark scheme row holds structured content, its totalMarks
\* is the sum of the questions' maxMarks and its questionCount is the number
\* of questions, whichever route stored it.
StoredCountsAreRecomputed ==
    (markscheme.exists /\ markscheme.content \in {"COMPLETE", "parsed", "given"})
    => /\ markscheme.totalMarks = SumSeq(markscheme.questions)
       /\ markscheme.questionCount = Len(markscheme.questions)

\* C18, the state that breaks it: processMarkschemeAsync stored the total the
\* language model reported, which is not the sum of the questions it returned
ReportedTotalStored ==
    /\ markscheme.content = "COMPLETE"
    /\ markscheme.totalMarks = 7
    /\ SumSeq(markscheme.questions) # 7
    /\ upload.pc = "idle"

\* C19: an admin upload that parsed and stored its mark scheme answers
\* 'created' with the row stored active and the counts recomputed, and its
\* warnings name exactly the counts that differ from the paper's expected
\* value (when the paper has one) by more than the tolerance; an upload fails
\* only for a missing file or paper, a failed parse or a failed write.
DivergenceIsOnlyAWarning ==
    [][(upload.pc = "idle" /\ reply'.op = "admin_upload"
          /\ (reply' # reply \/ markscheme' # markscheme)) =>
          /\ reply'.outcome \in {"created", "error", "validation", "not_found"}
          /\ (reply'.outcome = "error") =>
                 reply'.cause \in {"ocr", "malformed", "http_error", "db"}
          /\ (reply'.outcome = "created") =>
                 /\ markscheme'.exists
                 /\ markscheme'.isActive
                 /\ markscheme'.content = "parsed"
                 /\ markscheme'.totalMarks = SumSeq(markscheme'.questions)
                 /\ markscheme'.questionCount = Len(markscheme'.questions)
                 /\ ("marks" \in reply'.warnings) <=>
                       (/\ paper.totalMarks # 0
                        /\ Diff(markscheme'.totalMarks, paper.totalMarks)
                              > marksTolerance)
                 /\ ("subparts" \in reply'.warnings) <=>
                       (/\ paper.totalSubparts # 0
                        /\ Diff(markscheme'.questionCount, paper.totalSubparts)
                              > subpartsTolerance)
                 /\ reply'.warnings \subseteq {"marks", "subparts"}]_vars

\* C19, its case: an admin upload whose marks and question count both differ
\* from the paper's by more than the tolerance was stored active, with both
\* warnings in the response
UploadStoredWithWarnings ==
    /\ reply.op = "admin_upload"
    /\ reply.outcome = "created"
    /\ reply.warnings = {"marks", "subparts"}
    /\ markscheme.exists
    /\ markscheme.isActive
    /\ markscheme.content = "parsed"

\* C20: an upload makes at most two structuring calls, and one that failed
\* on a malformed response made two: the call and its one retry.
StructuringRetriesOnce ==
    /\ upload.calls <= 2
    /\ reply.calls <= 2
    /\ (upload.pc = "catch" /\ upload.cause = "malformed") => upload.calls = 2
    /\ (reply.op = "admin_upload" /\ reply.cause = "malformed") => reply.calls = 2

\* C20, the state that breaks it: the upload run is in its catch block after
\* one malformed response, and no second call was made
FailedAfterOneMalformedResponse ==
    /\ upload.pc = "catch"
    /\ upload.cause = "malformed"
    /\ upload.calls = 1

\* ------------------------------------------------------------------------
\* Properties of the marking policies (spec.md sections 4.4, 4.5, 8)
\* ------------------------------------------------------------------------

\* C21: with the language-model fallback on, a written answer whose marking
\* call failed, or whose response lacks score, maxScore or breakdown, gets
\* 0 marks, confidence 0, isCorrect false, the manual-review feedback, the
\* question's own maxMarks and none of its marking points awarded.
MalformedAnswerGetsManualReview ==
    (/\ grade.pc = "returned"
     /\ useOpenAI
     /\ \E i \in 1..Len(grade.answer) : ~isSpace(grade.answer[i])
     /\ \/ ~grade.response.ok
        \/ grade.response.breakdown.isNull
        \/ grade.response.score = Undefined
        \/ grade.response.maxScore = Undefined)
    => /\ grade.result.confidence = 0
       /\ grade.result.isCorrect = FALSE
       /\ grade.result.marksAwarded = 0
       /\ grade.result.maxMarks = grade.question.maxMarks
       /\ grade.result.feedback = "Unable to mark using AI - please review manually"
       /\ \A i \in 1..Len(grade.result.markingPoints) :
             ~grade.result.markingPoints[i].awarded

\* C21, the state that breaks it: the response has a breakdown but neither
\* score nor maxScore, and the result is correct with confidence 0.9
ScorelessResponseMarkedCorrect ==
    /\ grade.pc = "returned"
    /\ useOpenAI
    /\ grade.response.score = Undefined
    /\ grade.response.maxScore = Undefined
    /\ grade.result.isCorrect
    /\ grade.result.confidence = 90
    /\ grade.result.marksAwarded = Undefined

\* the terms of one side as written: each non-empty term with the
\* coefficient it carries itself
sideTerms(side) == nonEmptyOnly(trimAll(split(side, {"+"})))

sideCompounds(side) == stripCoefficients(sideTerms(side))

sideCoefficients(side) == coefficientsOf(sideTerms(side))

\* every element occurs as often, weighted by the coefficient of its own
\* compound, on the left of the separator as on the right
balancedSides(left, right) ==
    \A element \in elementsOf(sideCompounds(left)) \cup elementsOf(sideCompounds(right)) :
        getElementCount(sideCompounds(left), sideCoefficients(left), element, 1)
        = getElementCount(sideCompounds(right), sideCoefficients(right), element, 1)

balancedAt(normalized, p) ==
    balancedSides(SubSeq(normalized, 1, p - 1),
                  SubSeq(normalized, p + 1, Len(normalized)))

balancedByTerms(normalized, splits) ==
    /\ splits # {}
    /\ balancedAt(normalized, CHOOSE q \in splits : \A r \in splits : q <= r)

BalancedByTerms(equation) ==
    balancedByTerms(normalizeEquation(equation), splitPoints(normalizeEquation(equation)))

\* C22: parseEquation reports an equation balanced exactly when, for every
\* element, the occurrences weighted by the coefficient of the compound they
\* stand in are equal on both sides, empty terms included; in particular
\* "2H2 + O2 = 2H2O" is balanced and "H2 + O2 = H2O" is not.
BalanceIsPerElementSum ==
    (chem.pc = "returned" /\ chem.op = "parseEquation" /\ chem.equation.parsed)
    => /\ chem.equation.isBalanced <=> BalancedByTerms(chem.a)
       /\ chem.a = EqWater => chem.equation.isBalanced
       /\ chem.a = EqWaterUnbalanced => ~chem.equation.isBalanced

\* the two named equations are parsed and reported as the claim says
NamedEquationsReported ==
    (chem.pc = "returned" /\ chem.op = "parseEquation")
    => /\ chem.a = EqWater => chem.equation.parsed /\ chem.equation.isBalanced
       /\ chem.a = EqWaterUnbalanced
              => chem.equation.parsed /\ ~chem.equation.isBalanced

\* a balanced equation written with a doubled "+" is reported unbalanced
DoubledPlusReportedUnbalanced ==
    /\ chem.pc = "returned"
    /\ chem.op = "parseEquation"
    /\ chem.a = EqWaterDoubledPlus
    /\ chem.equation.parsed
    /\ chem.equation.reactants = <<<<"H", "2">>, <<"O", "2">>>>
    /\ chem.equation.products = <<<<"H", "2", "O">>>>
    /\ BalancedByTerms(chem.a)
    /\ ~chem.equation.isBalanced

\* the canonical forms of a list of compounds, as a set: the standard form
\* of each compound with its letter case folded
canonicalCompounds(compounds) ==
    { toLowerCase(standardizeFormula(compounds[i])) : i \in 1..Len(compounds) }

sameCompoundSets(parsed1, parsed2) ==
    /\ parsed1.parsed
    /\ parsed2.parsed
    /\ canonicalCompounds(parsed1.reactants) = canonicalCompounds(parsed2.reactants)
    /\ canonicalCompounds(parsed1.products) = canonicalCompounds(parsed2.products)

\* C23: compareEquations answers true exactly when both equations parse and
\* have the same set of canonical reactant compounds and the same set of
\* canonical product compounds; the answer is the same with the arguments
\* exchanged, and does not depend on term order, on whitespace inside a
\* compound or on letter case.
EquationsEqualAsCompoundSets ==
    (chem.pc = "returned" /\ chem.op = "compareEquations")
    => /\ chem.equal <=> sameCompoundSets(parseEquation(chem.a), parseEquation(chem.b))
       /\ chem.equal <=> compareEquations(chem.b, chem.a)

\* the answer is the same with the arguments exchanged, and true for an
\* equation and the same equation with its reactants reordered
ComparisonSymmetricAndUnordered ==
    (chem.pc = "returned" /\ chem.op = "compareEquations")
    => /\ chem.equal <=> compareEquations(chem.b, chem.a)
       /\ (chem.a = EqWater /\ chem.b = EqWaterReordered) => chem.equal

\* the same equation in lower case is compared unequal
LetterCaseComparedUnequal ==
    /\ chem.pc = "returned"
    /\ chem.op = "compareEquations"
    /\ chem.a = EqWater
    /\ chem.b = EqWaterLowerCase
    /\ sameCompoundSets(parseEquation(chem.a), parseEquation(chem.b))
    /\ ~chem.equal

SubscriptFormulaStandardized ==
    /\ chem.pc = "returned"
    /\ chem.op = "standardizeFormula"
    /\ chem.a = FSpacedSubscript
    /\ chem.standard = <<"C", "O", "2">>

\* how many keywords of a marking point the answer contains, letter case
\* ignored
keywordsFoundIn(answer, mp) ==
    Cardinality({ k \in 1..Len(mp.keywords.v) :
                    includes(toLowerCase(answer), toLowerCase(mp.keywords.v[k])) })

\* marks of the points a result flags as awarded
awardedMarks(question, result) ==
    SumSeq([i \in 1..Len(question.markingPoints) |->
               IF result.markingPoints[i].awarded
               THEN question.markingPoints[i].marks ELSE 0])

\* C25: on an extended_response question a marking point is awarded exactly
\* when the keywords found in the answer are at least 60% of the point's
\* keywords (a point without a keyword list is not awarded), marksAwarded is
\* the sum of the marks of the awarded points, and isCorrect holds exactly
\* when marksAwarded is at least 80% of maxMarks.
ExtendedResponseThresholds ==
    (grade.pc = "returned" /\ grade.policy = "extended_response")
    => /\ \A i \in 1..Len(grade.question.markingPoints) :
             grade.result.markingPoints[i].awarded
             <=> /\ ~grade.question.markingPoints[i].keywords.isNull
                 /\ 10 * keywordsFoundIn(trim(grade.answer), grade.question.markingPoints[i])
                    >= 6 * Len(grade.question.markingPoints[i].keywords.v)
       /\ grade.result.marksAwarded = awardedMarks(grade.question, grade.result)
       /\ grade.result.isCorrect
          <=> 10 * grade.result.marksAwarded >= 8 * grade.question.maxMarks

\* three of five keywords earn the point, none of two does not, and three
\* marks of five are not a correct answer
PointAwardedAtSixtyPercent ==
    /\ grade.pc = "returned"
    /\ grade.policy = "extended_response"
    /\ grade.question = QExtendedFive
    /\ grade.answer = AnsIonBondSalt
    /\ grade.result.markingPoints[2].awarded
    /\ ~grade.result.markingPoints[3].awarded
    /\ grade.result.marksAwarded = 3
    /\ ~grade.result.isCorrect

\* four marks of five are a correct answer
CorrectAtEightyPercent ==
    /\ grade.pc = "returned"
    /\ grade.policy = "extended_response"
    /\ grade.question = QExtendedFive
    /\ grade.answer = AnsMetalAtomIonBond
    /\ grade.result.marksAwarded = 4
    /\ grade.result.isCorrect

isLetter(c) == isUpper(c) \/ isLower(c)

\* the answer writes an arithmetic operator: an operator sign, an equals
\* sign, or an "x" standing as a multiplication sign, not as a letter of a
\* word
writesOperator(answer) ==
    \E i \in 1..Len(answer) :
        \/ answer[i] \in {"+", "-", "×", "÷", "*", "/", "="}
        \/ /\ answer[i] = "x"
           /\ i > 1 => ~isLetter(answer[i - 1])
           /\ i < Len(answer) => ~isLetter(answer[i + 1])

\* C26: on a calculation question marksAwarded is maxMarks when the first
\* numeric token of the answer is within 0.01 of the value of an accepted
\* answer, otherwise floor(maxMarks / 2) when the answer contains an
\* arithmetic operator and 0 when it does not; isCorrect holds exactly in
\* the first case.
CalculationMarksByOperator ==
    (grade.pc = "returned" /\ grade.policy = "calculation")
    => /\ grade.result.marksAwarded
          = (IF calculationMatched(grade.question,
                                   extractNumericValue(trim(grade.answer)))
             THEN grade.question.maxMarks
             ELSE IF writesOperator(trim(grade.answer))
             THEN grade.question.maxMarks \div 2 ELSE 0)
       /\ grade.result.isCorrect
          <=> calculationMatched(grade.question,
                                 extractNumericValue(trim(grade.answer)))

\* the same with the characters hasWorkingShown looks for: only maxMarks,
\* floor(maxMarks / 2) and 0 are awarded, and isCorrect goes with a match
CalculationMarksByIndicator ==
    (grade.pc = "returned" /\ grade.policy = "calculation")
    => /\ grade.result.marksAwarded
          = (IF calculationMatched(grade.question,
                                   extractNumericValue(trim(grade.answer)))
             THEN grade.question.maxMarks
             ELSE IF hasWorkingShown(trim(grade.answer))
             THEN grade.question.maxMarks \div 2 ELSE 0)
       /\ grade.result.isCorrect
          <=> calculationMatched(grade.question,
                                 extractNumericValue(trim(grade.answer)))

\* a number written as a word that has the letter x earns half marks
WordWithXEarnsHalfMarks ==
    /\ grade.pc = "returned"
    /\ grade.policy = "calculation"
    /\ grade.question = QCalc
    /\ grade.answer = AnsSix
    /\ ~writesOperator(grade.answer)
    /\ grade.result.marksAwarded = 1
    /\ grade.result.markingPoints[1].awarded
    /\ ~grade.result.isCorrect

\* C28: on a chemical_equation question with balanceRequired, an answer that
\* parseEquation reports as not balanced never gets marksAwarded = maxMarks
\* and is never marked correct, whatever compounds it names.
UnbalancedNeverFullMarks ==
    (/\ grade.pc = "returned"
     /\ grade.policy = "chemical_equation"
     /\ grade.question.balanceRequired
     /\ parseEquation(trim(grade.answer)).parsed
     /\ ~parseEquation(trim(grade.answer)).isBalanced)
    => /\ grade.result.marksAwarded # grade.question.maxMarks
       /\ ~grade.result.isCorrect

\* the unbalanced "H2 + O2 = H2O" gets full marks against "2H2 + O2 = 2H2O"
UnbalancedEquationMarkedCorrect ==
    /\ grade.pc = "returned"
    /\ grade.policy = "chemical_equation"
    /\ grade.question = QEquation
    /\ grade.answer = EqWaterUnbalanced
    /\ ~parseEquation(grade.answer).isBalanced
    /\ grade.result.marksAwarded = grade.question.maxMarks
    /\ grade.result.isCorrect
    /\ \A i \in 1..Len(grade.result.markingPoints) :
          grade.result.markingPoints[i].awarded

\* the answer contains no keyword of any marking point of the question
containsNoKeyword(answer, question) ==
    \A i \in 1..Len(question.markingPoints) :
        \/ question.markingPoints[i].keywords.isNull
        \/ keywordsFoundIn(answer, question.markingPoints[i]) = 0

\* a result with no marks and no point awarded
noCredit(result) ==
    /\ result.marksAwarded = 0
    /\ \A i \in 1..Len(result.markingPoints) : ~result.markingPoints[i].awarded

\* C29: keyword marking gives no credit to an answer without a keyword: on
\* an extended_response question, and on a short_answer question whose
\* accepted answers do not match, a non-empty answer containing no keyword
\* of any marking point gets 0 marks and no point awarded, also when a
\* point's keyword list is empty.
NoKeywordNoCredit ==
    (/\ grade.pc = "returned"
     /\ \/ grade.policy = "extended_response"
        \/ /\ grade.policy = "short_answer"
           /\ ~shortAnswerMatched(grade.question, trim(grade.answer),
                                  toleranceOf(Markscheme))
     /\ containsNoKeyword(trim(grade.answer), grade.question))
    => noCredit(grade.result)

\* the short_answer half: no keyword and no accepted answer, no credit
ShortAnswerNoKeywordNoCredit ==
    (/\ grade.pc = "returned"
     /\ grade.policy = "short_answer"
     /\ ~shortAnswerMatched(grade.question, trim(grade.answer),
                            toleranceOf(Markscheme))
     /\ containsNoKeyword(trim(grade.answer), grade.question))
    => noCredit(grade.result)

\* an extended_response point with an empty keyword list is awarded to an
\* answer that contains no keyword at all
EmptyKeywordListAwarded ==
    /\ grade.pc = "returned"
    /\ grade.policy = "extended_response"
    /\ grade.question = QExtended
    /\ grade.answer = <<"C">>
    /\ containsNoKeyword(grade.answer, grade.question)
    /\ grade.question.markingPoints[2].keywords = Some(<<>>)
    /\ grade.result.markingPoints[2].awarded
    /\ grade.result.marksAwarded = 1

\* ------------------------------------------------------------------------
\* Properties of stored mark schemes and of concurrent grading
\* ------------------------------------------------------------------------

\* the row holds structured content: questions with their counts
isStructured(row) == row.exists /\ row.content \in {"COMPLETE", "parsed", "given"}

\* C27: a stored mark scheme is superseded, not mutated in place: while a
\* re-upload is processed and after one fails, the row still holds the
\* structured content it had; that content is only ever replaced by
\* structured content.
MarkschemeSupersededNotMutated ==
    [][isStructured(markscheme) => isStructured(markscheme')]_vars

\* after a failed re-upload the row holds the FAILED blob with no questions
\* and zero counts; the paper's totalMarks of 6 was written by an admin
\* upload that had stored a structured mark scheme of 6 marks for the paper
StructuredContentLostToFailedUpload ==
    /\ upload.pc = "idle"
    /\ paper.exists
    /\ paper.totalMarks = 6
    /\ markscheme.exists
    /\ markscheme.content = "FAILED"
    /\ markscheme.questions = <<>>
    /\ markscheme.totalMarks = 0
    /\ markscheme.questionCount = 0

\* a mark request between its status check and its last write
requestInFlight(r) ==
    req[r].pc \in {"engine_find", "loop", "update_scores", "set_complete"}

\* C30: grading passes on one submission do not interleave: between the
\* status check of a mark request and its last write, no other pass (the
\* run, or another request) writes rows or totals of the submission, so the
\* stored rows and totals are never a mixture of two passes.
GradingPassesDoNotInterleave ==
    [][\A r \in Requests :
          (requestInFlight(r) /\ req'[r] = req[r])
          => UNCHANGED <<results, totalScore, score, maxScore, scoresPass>>]_vars

\* the run and a mark request are both storing rows: rows of both passes
\* are in the table while neither pass has finished
RowsMixedWhileBothInFlight ==
    /\ ppc = "store"
    /\ \E r \in Requests :
          /\ req[r].pc = "loop"
          /\ PassRowCount(results, r) > 0
          /\ PassRowCount(results, PipelinePass) > 0

\* both passes have ended after overlapping: the totals are the request's,
\* and rows of the run are stored next to the rows of the request
TotalsOfOnePassRowsOfTwo ==
    /\ ppc = "done"
    /\ status = "MARKING_COMPLETE"
    /\ \E r \in Requests :
          /\ req[r].pc = "done"
          /\ scoresPass = r
          /\ PassRowCount(results, r) > 0
          /\ PassRowCount(results, PipelinePass) > 0
          /\ ~score.isNull
          /\ score.v # RowSums(results).marksAwarded

====
